---- MODULE Spec2Model ----
(***************************************************************************)
(* Verification model of rust_kv_store (kv-common): the write-ahead log,   *)
(* the command handler with its per-command transaction handler, the       *)
(* Store engine (typed values, expiry, metadata, disk markers) and the     *)
(* StoreManager facade (per-key offload/load, snapshot save/load).         *)
(*                                                                         *)
(* Option<T> is modelled as a sequence of length 0 (None) or 1 (Some).     *)
(***************************************************************************)
EXTENDS Integers, Sequences, FiniteSets, TLC

(***************************************************************************)
(* Bounds of the model                                                     *)
(***************************************************************************)
MaxLogLen == 4
MaxTxnId == 2
OverflowDepth == 2
MaxAccessCount == 5
MaxListLen == 2
MaxStrLen == 2
MaxTime == 3
MaxCheckpointFiles == 2
MaxTypeTime == 1
IsizeBits == 4

WalKeys == {"k1"}
WalValues == {"a", "b"}
TxnIds == 1..MaxTxnId

None == <<>>
Some(x) == <<x>>

(***************************************************************************)
(* Program constants                                                       *)
(***************************************************************************)
DefaultCheckpointInterval == 1000
TestCheckpointInterval == 3
DefaultCheckpointThreshold == 1000
DefaultExpirySeconds == 3600
DefaultAccessThreshold == 100
DefaultIdleTimeThreshold == 600

VARIABLES
    wal_file,      \* lines of the WAL file, in append order
    ckpt_files,    \* checkpoint directory: set of <<id, lines>> (one file per id)
    wal,           \* the live WriteAheadLog instance
    wal_alive,     \* FALSE once the owning process has aborted
    recovered,     \* Option: the map returned by the last recover()
    store,         \* the Store behind the StoreManager's mutex
    disk_files,    \* the low-frequency directory: key -> Option<JSON document>
    snapshot_file, \* Option: content of the data file (None: missing or empty)
    store2,        \* Option: the Store of the StoreManager built by the last step
    clock,         \* the wall clock, in seconds
    settings,      \* Store.settings.storage as seen by apply_default_expiry
    memory_manager,\* Option: Store.memory_manager
    last_cmd,      \* the last command executed and its response
    conn,          \* what the connection knows of its open transaction
    expiring,      \* key -> Option: the value and deadline given by set and expire
    clients,       \* connection thread -> its command and its position in it
    offloader,     \* the background optimization thread: position and work list
    history,       \* what the connections have been answered so far
    manager,       \* the shared TransactionManager: active table and id counter
    workers,       \* thread -> its TransactionManager call and its position in it
    txn_history,   \* the ids begin has returned and the last call that returned
    server         \* the Server: running flag, position of start(), its connection

walVars == <<wal_file, ckpt_files, wal, wal_alive, recovered>>
storeVars == <<store, disk_files, snapshot_file, store2, clock, settings, memory_manager>>
cmdVars == <<last_cmd, conn, expiring>>
concVars == <<clients, offloader, history>>
txnVars == <<manager, workers, txn_history>>
srvVars == <<server>>
vars == <<walVars, storeVars, cmdVars, concVars, txnVars, srvVars>>

(***************************************************************************)
(* LogEntry and its text form (wal.rs)                                     *)
(***************************************************************************)
LogEntry_new(command, key, value, id) ==
    [command |-> command, key |-> key, value |-> value, id |-> id]

unwrap_or_default(opt) == IF opt = None THEN "" ELSE opt[1]

\* the line written for an entry: the fields joined by '|'
serialize(e) ==
    <<e.command, unwrap_or_default(e.key), unwrap_or_default(e.value), e.id>>

\* the entry read back from a line: an empty field reads as None
deserialize(line) ==
    [command |-> line[1],
     key     |-> IF line[2] = "" THEN None ELSE Some(line[2]),
     value   |-> IF line[3] = "" THEN None ELSE Some(line[3]),
     id      |-> line[4]]

RECURSIVE load_lines(_)
load_lines(lines) ==
    IF lines = <<>> THEN <<>>
    ELSE <<deserialize(Head(lines))>> \o load_lines(Tail(lines))

load_entries(file) == load_lines(file)

(***************************************************************************)
(* Maps key -> text (HashMap<String, String>) as functions on WalKeys with *)
(* Option values.                                                          *)
(***************************************************************************)
EmptyMap == [k \in WalKeys |-> None]
map_insert(m, k, v) == [m EXCEPT ![k] = Some(v)]
map_remove(m, k) == [m EXCEPT ![k] = None]

\* Checkpoint::serialize_to_file: one "<key>|<value>" line per key
Checkpoint_serialize(data) ==
    {<<k, data[k][1]>> : k \in {x \in WalKeys : data[x] # None}}

\* Checkpoint::deserialize_from_file: insert every line into a fresh map
Checkpoint_deserialize(lines) ==
    [k \in WalKeys |->
        IF \E l \in lines : l[1] = k
        THEN Some((CHOOSE l \in lines : l[1] = k)[2])
        ELSE None]

(***************************************************************************)
(* active_transactions: Vec<u64>                                           *)
(***************************************************************************)
vec_contains(v, x) == \E i \in 1..Len(v) : v[i] = x

vec_position(v, x) == CHOOSE i \in 1..Len(v) : v[i] = x /\ \A j \in 1..(i-1) : v[j] # x

vec_remove(v, i) == [j \in 1..(Len(v) - 1) |-> IF j < i THEN v[j] ELSE v[j + 1]]

track_transaction(active, e) ==
    IF e.command = "BEGIN" THEN Append(active, e.id)
    ELSE IF e.command \in {"COMMIT", "ROLLBACK"} /\ vec_contains(active, e.id)
         THEN vec_remove(active, vec_position(active, e.id))
         ELSE active

RECURSIVE scan_active(_, _)
scan_active(entries, active) ==
    IF entries = <<>> THEN active
    ELSE scan_active(Tail(entries), track_transaction(active, Head(entries)))

RECURSIVE scan_last_id(_, _)
scan_last_id(entries, last) ==
    IF entries = <<>> THEN last
    ELSE scan_last_id(Tail(entries),
                      IF Head(entries).id > last THEN Head(entries).id ELSE last)

\* WriteAheadLog::new on an existing log file
WriteAheadLog_new(file, interval) ==
    [last_sequence_number     |-> scan_last_id(load_entries(file), 0),
     active_transactions      |-> scan_active(load_entries(file), <<>>),
     checkpoint_interval      |-> interval,
     entries_since_checkpoint |-> 0]

(***************************************************************************)
(* The WAL state an operation works on: the log file, the checkpoint       *)
(* directory, the instance fields and whether the process is still alive.  *)
(***************************************************************************)
WalState(file, ckpts, w, alive) ==
    [file |-> file, ckpts |-> ckpts, wal |-> w, alive |-> alive]

CheckpointPath(id) == "checkpoint_" \o ToString(id) \o ".dat"

\* Checkpoint::serialize_to_file at checkpoint_<id>.dat (File::create truncates)
write_checkpoint_file(ckpts, id, data) ==
    {c \in ckpts : c.path # CheckpointPath(id)}
        \cup {[path |-> CheckpointPath(id), id |-> id, lines |-> Checkpoint_serialize(data)]}

\* The unbounded recursion append_entry -> create_checkpoint(None) ->
\* append_entry -> ... : every level writes an empty checkpoint file and a
\* Checkpoint line with id last_sequence_number + 1, finds the counter still
\* at or above the interval and recurses.  depth levels run before the stack
\* is exhausted and the process aborts.
RECURSIVE checkpoint_recursion(_, _)
checkpoint_recursion(st, depth) ==
    IF depth = 0 THEN [st EXCEPT !.alive = FALSE]
    ELSE LET id == st.wal.last_sequence_number + 1
             e  == LogEntry_new("CHECKPOINT", Some(CheckpointPath(id)), None, id)
         IN checkpoint_recursion(
                [st EXCEPT !.ckpts = write_checkpoint_file(st.ckpts, id, EmptyMap),
                           !.file = Append(st.file, serialize(e)),
                           !.wal.last_sequence_number = id,
                           !.wal.entries_since_checkpoint = @ + 1],
                depth - 1)

\* WriteAheadLog::append_entry
append_entry(st, e, depth) ==
    LET written == [st EXCEPT !.file = Append(st.file, serialize(e)),
                              !.wal.last_sequence_number = e.id,
                              !.wal.entries_since_checkpoint = @ + 1]
    IN IF written.wal.entries_since_checkpoint >= written.wal.checkpoint_interval
       THEN checkpoint_recursion(written, depth)
       ELSE [written EXCEPT !.wal.active_transactions = track_transaction(@, e)]

\* WriteAheadLog::create_checkpoint
create_checkpoint(st, data_snapshot, depth) ==
    LET id       == st.wal.last_sequence_number + 1
        data     == IF data_snapshot = None THEN EmptyMap ELSE data_snapshot[1]
        e        == LogEntry_new("CHECKPOINT", Some(CheckpointPath(id)), None, id)
        appended == append_entry([st EXCEPT !.ckpts = write_checkpoint_file(st.ckpts, id, data)],
                                 e, depth)
    IN IF appended.alive
       THEN [appended EXCEPT !.wal.entries_since_checkpoint = 0]
       ELSE appended

\* WriteAheadLog::get_latest_checkpoint: newest Checkpoint entry whose file exists
RECURSIVE latest_checkpoint_from(_, _, _)
latest_checkpoint_from(entries, ckpts, i) ==
    IF i = 0 THEN None
    ELSE IF entries[i].command = "CHECKPOINT" /\ entries[i].key # None
            /\ \E c \in ckpts : c.path = entries[i].key[1]
         THEN Some(Checkpoint_deserialize(
                     (CHOOSE c \in ckpts : c.path = entries[i].key[1]).lines))
         ELSE latest_checkpoint_from(entries, ckpts, i - 1)

get_latest_checkpoint(st) ==
    latest_checkpoint_from(load_entries(st.file), st.ckpts, Len(load_entries(st.file)))

\* position (0-based) of the last Checkpoint entry, 0 when there is none
RECURSIVE checkpoint_index_from(_, _, _)
checkpoint_index_from(entries, i, idx) ==
    IF i > Len(entries) THEN idx
    ELSE checkpoint_index_from(entries, i + 1,
                               IF entries[i].command = "CHECKPOINT" THEN i - 1 ELSE idx)

\* the body of the Commit arm: apply the buffered operations in order
RECURSIVE apply_ops(_, _)
apply_ops(data, ops) ==
    IF ops = <<>> THEN data
    ELSE LET op == Head(ops)
         IN apply_ops(
              IF op.command = "PUT" /\ op.key # None /\ op.value # None
                  THEN map_insert(data, op.key[1], op.value[1])
              ELSE IF op.command = "DELETE" /\ op.key # None
                  THEN map_remove(data, op.key[1])
              ELSE data,
              Tail(ops))

\* a replay that applies every Put and Delete entry as it is read
replay_unbuffered(entries, active, data, txn_ops) ==
    apply_ops(data, SelectSeq(entries, LAMBDA e : e.command \in {"PUT", "DELETE"}))

\* the replay loop of recover(); txn_ops maps an id to Option<Vec<LogEntry>>
RECURSIVE replay(_, _, _, _)
replay(entries, active, data, txn_ops) ==
    IF entries = <<>> THEN data
    ELSE LET e == Head(entries)
             rest == Tail(entries)
         IN CASE e.command = "BEGIN" ->
                    replay(rest, active, data,
                           IF txn_ops[e.id] = None THEN [txn_ops EXCEPT ![e.id] = Some(<<>>)]
                           ELSE txn_ops)
              [] e.command \in {"PUT", "DELETE"} ->
                    replay(rest, active, data,
                           IF vec_contains(active, e.id)
                           THEN [txn_ops EXCEPT ![e.id] =
                                   Some(Append(IF @ = None THEN <<>> ELSE @[1], e))]
                           ELSE txn_ops)
              [] e.command = "COMMIT" ->
                    replay(rest, active,
                           IF txn_ops[e.id] # None THEN apply_ops(data, txn_ops[e.id][1]) ELSE data,
                           [txn_ops EXCEPT ![e.id] = None])
              [] e.command = "ROLLBACK" ->
                    replay(rest, active, data, [txn_ops EXCEPT ![e.id] = None])
              [] OTHER -> replay(rest, active, data, txn_ops)

\* WriteAheadLog::recover
recover(st) ==
    LET ckpt    == get_latest_checkpoint(st)
        data    == IF ckpt # None THEN ckpt[1] ELSE EmptyMap
        entries == load_entries(st.file)
        checkpoint_index == checkpoint_index_from(entries, 1, 0)
        \* entries.iter().skip(checkpoint_index + 1)
        after   == SubSeq(entries, checkpoint_index + 2, Len(entries))
    IN replay(after, st.wal.active_transactions, data,
              [i \in {entries[j].id : j \in 1..Len(entries)} |-> None])

\* the entries compact() copies into the new log file
RECURSIVE needed_entries(_, _, _)
needed_entries(entries, checkpoint_id, active) ==
    IF entries = <<>> THEN <<>>
    ELSE (IF Head(entries).id >= checkpoint_id \/ vec_contains(active, Head(entries).id)
          THEN <<serialize(Head(entries))>> ELSE <<>>)
         \o needed_entries(Tail(entries), checkpoint_id, active)

\* WriteAheadLog::compact
compact(st, depth) ==
    LET checkpoint_id == st.wal.last_sequence_number + 1
        cp == create_checkpoint(st, None, depth)
    IN IF cp.alive
       THEN [cp EXCEPT !.file = needed_entries(load_entries(cp.file), checkpoint_id,
                                               cp.wal.active_transactions)]
       ELSE cp

(***************************************************************************)
(* The Store engine (store_core.rs) with its handlers and managers.        *)
(* A store is a record [data, metadata, disk_keys, expire_times]; every    *)
(* operation is an operator from a store (and the clock) to the new store  *)
(* and the returned value.                                                 *)
(***************************************************************************)
Keys == {"k1", "k2"}
Values == {"a", "b"}
Fields == {"f"}

\* DataType: one record shape for the four variants
DString(v) == [type |-> "string", s |-> v, l |-> <<>>, h |-> {}, m |-> {}]
DList(l) == [type |-> "list", s |-> "", l |-> l, h |-> {}, m |-> {}]
DHash(h) == [type |-> "hash", s |-> "", l |-> <<>>, h |-> h, m |-> {}]
DSet(m) == [type |-> "set", s |-> "", l |-> <<>>, h |-> {}, m |-> m]

Ok(v) == <<"ok", v>>
TypeMismatch == <<"err", "TypeMismatch">>
IoError == <<"err", "IoError">>
is_ok(r) == r[1] = "ok"

Ret(s, ret) == [store |-> s, ret |-> ret]

\* Store::new
Store_new ==
    [data         |-> [k \in Keys |-> None],
     metadata     |-> [k \in Keys |-> None],
     disk_keys    |-> {},
     expire_times |-> [k \in Keys |-> None]]

contains_key(s, key) == s.data[key] # None

\* ExpiryManager::is_expired
is_expired(s, key, now) ==
    s.expire_times[key] # None /\ now >= s.expire_times[key][1]

\* ExpiryManager::set_expire
ExpiryManager_set_expire(s, key, seconds, now) ==
    [s EXCEPT !.expire_times[key] = Some(now + seconds)]

\* ExpiryManager::get_ttl
ExpiryManager_get_ttl(s, key, now) ==
    IF s.expire_times[key] = None THEN -1
    ELSE IF now >= s.expire_times[key][1] THEN -2
    ELSE s.expire_times[key][1] - now

\* ExpiryManager::find_expired_keys
find_expired_keys(s, now) ==
    {k \in Keys : s.expire_times[k] # None /\ now >= s.expire_times[k][1]}

\* DataMetadata::new(..) followed by DataMetadata::access / modify: a fresh
\* entry starts at access_count 1, and every access adds one and stamps the time
touch_metadata(s, key, now) ==
    LET m == s.metadata[key]
        count == IF m = None THEN 1 ELSE m[1].access_count
    IN [s EXCEPT !.metadata[key] =
            Some([access_count |-> count + 1, last_access_time |-> now])]

\* Store::record_access
record_access(s, key, now) == touch_metadata(s, key, now)

\* Store::record_modification
record_modification(s, key, now) == touch_metadata(s, key, now)

\* Store::apply_default_expiry
apply_default_expiry(s, key, now, cfg) ==
    IF cfg.enable_default_expiry
    THEN ExpiryManager_set_expire(s, key, cfg.default_expiry_seconds, now)
    ELSE s

\* StoreOperations::delete for Store
\* a delete that clears the whole expiry index
Store_delete_sweeping(s, key) ==
    Ret([s EXCEPT !.data[key] = None,
                  !.metadata[key] = None,
                  !.disk_keys = @ \ {key},
                  !.expire_times = [k \in Keys |-> None]],
        Ok(s.data[key] # None))

Store_delete(s, key) ==
    Ret([s EXCEPT !.data[key] = None,
                  !.metadata[key] = None,
                  !.disk_keys = @ \ {key},
                  !.expire_times[key] = None],
        Ok(s.data[key] # None))

\* the "if is_expired { delete }" prologue of the writing operations
delete_if_expired(s, key, now) ==
    IF is_expired(s, key, now) THEN Store_delete(s, key).store ELSE s

\* Store::set_string
Store_set_string(s, key, value, now, cfg) ==
    LET s1 == record_access(s, key, now)
        s2 == [s1 EXCEPT !.data[key] = Some(DString(value))]
        s3 == record_modification(s2, key, now)
    IN apply_default_expiry(s3, key, now, cfg)

\* StringOperations::set for Store: returns the value that was passed in
Store_set(s, key, value, now, cfg) ==
    Ret(Store_set_string(s, key, value, now, cfg), Ok(value))

\* Store::get_string
Store_get_string(s, key, now) ==
    IF is_expired(s, key, now) THEN None
    ELSE IF s.data[key] # None /\ s.data[key][1].type = "string"
         THEN Some(s.data[key][1].s)
         ELSE None

\* StringOperations::get for Store
Store_get(s, key, now) == Ret(s, Ok(Store_get_string(s, key, now)))

\* StringHandler::append_internal
append_internal(s, key, value) ==
    IF s.data[key] = None
        THEN Ret([s EXCEPT !.data[key] = Some(DString(value))], Ok(Len(value)))
    ELSE IF s.data[key][1].type = "string"
        THEN Ret([s EXCEPT !.data[key] = Some(DString(s.data[key][1].s \o value))],
                 Ok(Len(s.data[key][1].s \o value)))
    ELSE Ret(s, TypeMismatch)

\* StringOperations::append for Store
Store_append(s, key, value, now, cfg) ==
    LET s1 == record_access(delete_if_expired(s, key, now), key, now)
        r  == append_internal(s1, key, value)
    IN IF is_ok(r.ret) THEN Ret(apply_default_expiry(r.store, key, now, cfg), r.ret)
       ELSE r

\* ListHandler::lpush_internal with a TypeMismatch arm in place of the replacing one
lpush_internal_strict(s, key, value) ==
    IF s.data[key] # None /\ s.data[key][1].type = "list"
    THEN Ret([s EXCEPT !.data[key] = Some(DList(<<value>> \o s.data[key][1].l))],
             Ok(Len(s.data[key][1].l) + 1))
    ELSE IF s.data[key] # None THEN Ret(s, TypeMismatch)
    ELSE Ret([s EXCEPT !.data[key] = Some(DList(<<value>>))], Ok(1))

\* ListHandler::lpush_internal
lpush_internal(s, key, value) ==
    IF s.data[key] # None /\ s.data[key][1].type = "list"
    THEN Ret([s EXCEPT !.data[key] = Some(DList(<<value>> \o s.data[key][1].l))],
             Ok(Len(s.data[key][1].l) + 1))
    ELSE Ret([s EXCEPT !.data[key] = Some(DList(<<value>>))], Ok(1))

\* ListHandler::rpush_internal
rpush_internal(s, key, value) ==
    IF s.data[key] # None /\ s.data[key][1].type = "list"
    THEN Ret([s EXCEPT !.data[key] = Some(DList(Append(s.data[key][1].l, value)))],
             Ok(Len(s.data[key][1].l) + 1))
    ELSE Ret([s EXCEPT !.data[key] = Some(DList(<<value>>))], Ok(1))

\* ListOperations::lpush for Store
Store_lpush(s, key, value, now, cfg) ==
    LET s1 == record_access(delete_if_expired(s, key, now), key, now)
        r  == lpush_internal(s1, key, value)
    IN Ret(apply_default_expiry(r.store, key, now, cfg), r.ret)

\* ListOperations::rpush for Store
Store_rpush(s, key, value, now, cfg) ==
    LET s1 == record_access(delete_if_expired(s, key, now), key, now)
        r  == rpush_internal(s1, key, value)
    IN Ret(apply_default_expiry(r.store, key, now, cfg), r.ret)

\* ListHandler::lpop_internal with `_ => Ok(None)` in place of the TypeMismatch arm
lpop_internal_lenient(s, key) ==
    IF s.data[key] = None THEN Ret(s, Ok(None))
    ELSE IF s.data[key][1].type # "list" THEN Ret(s, Ok(None))
    ELSE IF s.data[key][1].l = <<>> THEN Ret(s, Ok(None))
    ELSE Ret([s EXCEPT !.data[key] = Some(DList(Tail(s.data[key][1].l)))],
             Ok(Some(Head(s.data[key][1].l))))

\* ListHandler::lpop_internal
lpop_internal(s, key) ==
    IF s.data[key] = None THEN Ret(s, Ok(None))
    ELSE IF s.data[key][1].type # "list" THEN Ret(s, TypeMismatch)
    ELSE IF s.data[key][1].l = <<>> THEN Ret(s, Ok(None))
    ELSE Ret([s EXCEPT !.data[key] = Some(DList(Tail(s.data[key][1].l)))],
             Ok(Some(Head(s.data[key][1].l))))

\* ListHandler::rpop_internal
rpop_internal(s, key) ==
    IF s.data[key] = None THEN Ret(s, Ok(None))
    ELSE IF s.data[key][1].type # "list" THEN Ret(s, TypeMismatch)
    ELSE IF s.data[key][1].l = <<>> THEN Ret(s, Ok(None))
    ELSE LET l == s.data[key][1].l
         IN Ret([s EXCEPT !.data[key] = Some(DList(SubSeq(l, 1, Len(l) - 1)))],
                Ok(Some(l[Len(l)])))

\* ListOperations::lpop for Store
Store_lpop(s, key, now) ==
    IF is_expired(s, key, now) THEN Ret(Store_delete(s, key).store, Ok(None))
    ELSE lpop_internal(record_access(s, key, now), key)

\* ListOperations::rpop for Store
Store_rpop(s, key, now) ==
    IF is_expired(s, key, now) THEN Ret(Store_delete(s, key).store, Ok(None))
    ELSE rpop_internal(record_access(s, key, now), key)

\* isize arithmetic helpers of lrange_internal; isize and usize are
\* IsizeBits wide
imax(a, b) == IF a >= b THEN a ELSE b
imin(a, b) == IF a <= b THEN a ELSE b
isize_MAX == 2^(IsizeBits - 1) - 1
isize_MIN == 0 - 2^(IsizeBits - 1)
Isize == isize_MIN..isize_MAX

\* a + b as a build without overflow checks computes it
wrapping_add(a, b) ==
    IF a + b > isize_MAX THEN a + b - 2^IsizeBits
    ELSE IF a + b < isize_MIN THEN a + b + 2^IsizeBits
    ELSE a + b

\* a + b panics in a build with overflow checks
add_overflows(a, b) == a + b > isize_MAX \/ a + b < isize_MIN

\* `a as usize`
as_usize(a) == IF a < 0 THEN a + 2^IsizeBits ELSE a

\* ListHandler::lrange_internal on a list value
lrange_internal(list, start, end) ==
    LET len == Len(list)
        start_idx == IF start < 0 THEN imax(len + start, 0) ELSE imin(start, len)
        end_idx == IF end < 0 THEN imax(len + end + 1, 0)
                   ELSE imin(as_usize(wrapping_add(end, 1)), len)
    IN IF len = 0 THEN <<>>
       ELSE IF start_idx >= end_idx THEN <<>>
       ELSE SubSeq(list, start_idx + 1, end_idx)

\* ListOperations::lrange for Store
Store_lrange(s, key, start, end, now) ==
    IF is_expired(s, key, now) THEN Ret(s, Ok(<<>>))
    ELSE IF s.data[key] = None THEN Ret(s, Ok(<<>>))
    ELSE IF s.data[key][1].type # "list" THEN Ret(s, TypeMismatch)
    ELSE Ret(s, Ok(lrange_internal(s.data[key][1].l, start, end)))

\* ListOperations::llen for Store over ListHandler::llen_internal
Store_llen(s, key, now) ==
    IF is_expired(s, key, now) THEN Ret(s, Ok(0))
    ELSE IF s.data[key] = None THEN Ret(s, Ok(0))
    ELSE IF s.data[key][1].type # "list" THEN Ret(s, TypeMismatch)
    ELSE Ret(s, Ok(Len(s.data[key][1].l)))

hash_contains_key(h, field) == \E p \in h : p[1] = field
hash_get(h, field) ==
    IF hash_contains_key(h, field)
    THEN Some((CHOOSE p \in h : p[1] = field)[2]) ELSE None
hash_insert(h, field, value) == {p \in h : p[1] # field} \cup {<<field, value>>}
hash_remove(h, field) == {p \in h : p[1] # field}

\* HashHandler::hset_internal
hset_internal(s, key, field, value) ==
    IF s.data[key] # None /\ s.data[key][1].type = "hash"
    THEN Ret([s EXCEPT !.data[key] =
                  Some(DHash(hash_insert(s.data[key][1].h, field, value)))],
             Ok(~hash_contains_key(s.data[key][1].h, field)))
    ELSE Ret([s EXCEPT !.data[key] = Some(DHash({<<field, value>>}))], Ok(TRUE))

\* HashOperations::hset for Store
Store_hset(s, key, field, value, now, cfg) ==
    LET s1 == record_access(delete_if_expired(s, key, now), key, now)
        r  == hset_internal(s1, key, field, value)
    IN Ret(apply_default_expiry(r.store, key, now, cfg), r.ret)

\* HashOperations::hget for Store over HashHandler::hget_internal
Store_hget(s, key, field, now) ==
    IF is_expired(s, key, now) THEN Ret(s, Ok(None))
    ELSE IF s.data[key] = None THEN Ret(s, Ok(None))
    ELSE IF s.data[key][1].type # "hash" THEN Ret(s, TypeMismatch)
    ELSE Ret(s, Ok(hash_get(s.data[key][1].h, field)))

\* HashHandler::hdel_internal
hdel_internal(s, key, field) ==
    IF s.data[key] = None THEN Ret(s, Ok(FALSE))
    ELSE IF s.data[key][1].type # "hash" THEN Ret(s, TypeMismatch)
    ELSE Ret([s EXCEPT !.data[key] =
                  Some(DHash(hash_remove(s.data[key][1].h, field)))],
             Ok(hash_contains_key(s.data[key][1].h, field)))

\* HashOperations::hdel for Store
Store_hdel(s, key, field, now) ==
    IF is_expired(s, key, now) THEN Ret(Store_delete(s, key).store, Ok(FALSE))
    ELSE hdel_internal(record_access(s, key, now), key, field)

\* the members of a Vec<String> as a set
vec_to_set(v) == {v[i] : i \in 1..Len(v)}

\* SetHandler::sadd_internal
sadd_internal(s, key, members) ==
    IF s.data[key] # None /\ s.data[key][1].type = "set"
    THEN LET before == s.data[key][1].m
             after  == before \cup vec_to_set(members)
         IN Ret([s EXCEPT !.data[key] = Some(DSet(after))],
                Ok(Cardinality(after) - Cardinality(before)))
    ELSE Ret([s EXCEPT !.data[key] = Some(DSet(vec_to_set(members)))],
             Ok(Len(members)))

\* SetOperations::sadd for Store
Store_sadd(s, key, members, now, cfg) ==
    LET s1 == record_access(delete_if_expired(s, key, now), key, now)
        r  == sadd_internal(s1, key, members)
    IN Ret(apply_default_expiry(r.store, key, now, cfg), r.ret)

\* SetHandler::srem_internal
srem_internal(s, key, member) ==
    IF s.data[key] = None THEN Ret(s, Ok(FALSE))
    ELSE IF s.data[key][1].type # "set" THEN Ret(s, TypeMismatch)
    ELSE Ret([s EXCEPT !.data[key] = Some(DSet(s.data[key][1].m \ {member}))],
             Ok(member \in s.data[key][1].m))

\* SetOperations::srem for Store
Store_srem(s, key, member, now) ==
    IF is_expired(s, key, now) THEN Ret(Store_delete(s, key).store, Ok(FALSE))
    ELSE srem_internal(record_access(s, key, now), key, member)

\* SetOperations::smembers for Store over SetHandler::smembers_internal;
\* the result is the member set, its iteration order is chosen by the caller
Store_smembers(s, key, now) ==
    IF is_expired(s, key, now) THEN Ret(s, Ok({}))
    ELSE IF s.data[key] = None THEN Ret(s, Ok({}))
    ELSE IF s.data[key][1].type # "set" THEN Ret(s, TypeMismatch)
    ELSE Ret(s, Ok(s.data[key][1].m))

\* SetOperations::sismember for Store over SetHandler::sismember_internal
Store_sismember(s, key, member, now) ==
    IF is_expired(s, key, now) THEN Ret(s, Ok(FALSE))
    ELSE IF s.data[key] = None THEN Ret(s, Ok(FALSE))
    ELSE IF s.data[key][1].type # "set" THEN Ret(s, TypeMismatch)
    ELSE Ret(s, Ok(member \in s.data[key][1].m))

\* StoreOperations::set_expire for Store
Store_set_expire(s, key, seconds, now) ==
    IF ~contains_key(s, key) THEN Ret(s, Ok(FALSE))
    ELSE Ret(ExpiryManager_set_expire(s, key, seconds, now), Ok(TRUE))

\* StoreOperations::get_ttl for Store
Store_get_ttl(s, key, now) ==
    IF ~contains_key(s, key) THEN Ret(s, Ok(-2))
    ELSE Ret(s, Ok(ExpiryManager_get_ttl(s, key, now)))

\* Store::clean_expired_keys
clean_expired_keys(s, now) ==
    LET expired == find_expired_keys(s, now)
    IN [data         |-> [k \in Keys |-> IF k \in expired THEN None ELSE s.data[k]],
        metadata     |-> [k \in Keys |-> IF k \in expired THEN None ELSE s.metadata[k]],
        disk_keys    |-> s.disk_keys \ expired,
        expire_times |-> [k \in Keys |-> IF k \in expired THEN None
                                         ELSE s.expire_times[k]]]

\* Store::mark_as_disk_stored
mark_as_disk_stored(s, key) ==
    IF contains_key(s, key)
    THEN [s EXCEPT !.disk_keys = @ \cup {key}, !.data[key] = None]
    ELSE s

\* serde_json::to_string / from_str of one DataType: the tagged JSON document
to_json(d) ==
    IF d.type = "string" THEN <<"String", d.s>>
    ELSE IF d.type = "list" THEN <<"List", d.l>>
    ELSE IF d.type = "hash" THEN <<"Hash", d.h>>
    ELSE <<"Set", d.m>>
from_json(j) ==
    IF j[1] = "String" THEN DString(j[2])
    ELSE IF j[1] = "List" THEN DList(j[2])
    ELSE IF j[1] = "Hash" THEN DHash(j[2])
    ELSE DSet(j[2])

\* Store::serialize_key
serialize_key(s, key) ==
    IF ~contains_key(s, key) THEN None ELSE Some(to_json(s.data[key][1]))

\* Store::deserialize_key
deserialize_key(s, key, content, now) ==
    LET s1 == [s EXCEPT !.data[key] = Some(from_json(content)),
                        !.disk_keys = @ \ {key}]
    IN record_modification(s1, key, now)

\* Store::serialize: data is the only field that is not #[serde(skip)]
Store_serialize(s) ==
    [data |-> {<<k, to_json(s.data[k][1])>> : k \in {x \in Keys : s.data[x] # None}}]

\* Store::deserialize: replaces data and rebuilds the metadata of the loaded
\* keys; disk_keys, the expiry table and other metadata entries stay
Store_deserialize(s, doc, now) ==
    LET loaded == {p[1] : p \in doc.data}
        value(k) == from_json((CHOOSE p \in doc.data : p[1] = k)[2])
    IN [s EXCEPT
          !.data = [k \in Keys |-> IF k \in loaded THEN Some(value(k)) ELSE None],
          !.metadata = [k \in Keys |->
                IF k \in loaded
                THEN Some([access_count |-> 1, last_access_time |-> now])
                ELSE s.metadata[k]]]

(***************************************************************************)
(* StoreManager (store_manager.rs): every proxy first runs                 *)
(* ensure_key_loaded and then the Store operation.  The operators below    *)
(* are the proxies run without interference from another thread.           *)
(***************************************************************************)
NoFiles == [k \in Keys |-> None]

SMRet(s, files, ret) == [store |-> s, files |-> files, ret |-> ret]

\* StoreManager::load_key_from_disk / ensure_key_loaded
ensure_key_loaded(s, files, key, now) ==
    IF ~(~contains_key(s, key) /\ key \in s.disk_keys) THEN SMRet(s, files, Ok(FALSE))
    ELSE IF files[key] = None THEN SMRet(s, files, IoError)
    ELSE SMRet(deserialize_key(s, key, files[key][1], now), files, Ok(TRUE))

\* the common shape "self.ensure_key_loaded(key)?; store.lock().op(..)": e is
\* the outcome of the load, r the outcome of the operation on the loaded store
after_load(e, r) ==
    IF ~is_ok(e.ret) THEN e ELSE SMRet(r.store, e.files, r.ret)

\* StoreManager::set_string
SM_set_string(s, files, key, value, now, cfg) ==
    LET e == ensure_key_loaded(s, files, key, now)
    IN after_load(e, Store_set(e.store, key, value, now, cfg))

\* StoreManager::get_string
SM_get_string(s, files, key, now) ==
    LET e == ensure_key_loaded(s, files, key, now)
    IN after_load(e, Store_get(e.store, key, now))

\* StoreManager::lpush
SM_lpush(s, files, key, value, now, cfg) ==
    LET e == ensure_key_loaded(s, files, key, now)
    IN after_load(e, Store_lpush(e.store, key, value, now, cfg))

\* StoreManager::rpush
SM_rpush(s, files, key, value, now, cfg) ==
    LET e == ensure_key_loaded(s, files, key, now)
    IN after_load(e, Store_rpush(e.store, key, value, now, cfg))

\* StoreManager::lpop
SM_lpop(s, files, key, now) ==
    LET e == ensure_key_loaded(s, files, key, now)
    IN after_load(e, Store_lpop(e.store, key, now))

\* StoreManager::rpop
SM_rpop(s, files, key, now) ==
    LET e == ensure_key_loaded(s, files, key, now)
    IN after_load(e, Store_rpop(e.store, key, now))

\* StoreManager::lrange / range
SM_lrange(s, files, key, start, end, now) ==
    LET e == ensure_key_loaded(s, files, key, now)
    IN after_load(e, Store_lrange(e.store, key, start, end, now))

\* StoreManager::hset
SM_hset(s, files, key, field, value, now, cfg) ==
    LET e == ensure_key_loaded(s, files, key, now)
    IN after_load(e, Store_hset(e.store, key, field, value, now, cfg))

\* StoreManager::hget
SM_hget(s, files, key, field, now) ==
    LET e == ensure_key_loaded(s, files, key, now)
    IN after_load(e, Store_hget(e.store, key, field, now))

\* StoreManager::hdel / hdel_field
SM_hdel(s, files, key, field, now) ==
    LET e == ensure_key_loaded(s, files, key, now)
    IN after_load(e, Store_hdel(e.store, key, field, now))

\* StoreManager::sadd
SM_sadd(s, files, key, members, now, cfg) ==
    LET e == ensure_key_loaded(s, files, key, now)
    IN after_load(e, Store_sadd(e.store, key, members, now, cfg))

\* StoreManager::smembers
SM_smembers(s, files, key, now) ==
    LET e == ensure_key_loaded(s, files, key, now)
    IN after_load(e, Store_smembers(e.store, key, now))

\* StoreManager::srem
SM_srem(s, files, key, member, now) ==
    LET e == ensure_key_loaded(s, files, key, now)
    IN after_load(e, Store_srem(e.store, key, member, now))

\* StoreManager::llen
SM_llen(s, files, key, now) ==
    LET e == ensure_key_loaded(s, files, key, now)
    IN after_load(e, Store_llen(e.store, key, now))

\* StoreManager::sismember / smember_query
SM_sismember(s, files, key, member, now) ==
    LET e == ensure_key_loaded(s, files, key, now)
    IN after_load(e, Store_sismember(e.store, key, member, now))

\* StoreManager::delete_key / del_key / ldel: removes the key's disk file,
\* then Store::delete (no ensure_key_loaded)
SM_delete_key(s, files, key) ==
    LET r == Store_delete(s, key)
    IN SMRet(r.store, [files EXCEPT ![key] = None], r.ret)

\* StoreManager::set_expire / expire (no ensure_key_loaded)
SM_set_expire(s, files, key, seconds, now) ==
    LET r == Store_set_expire(s, key, seconds, now)
    IN SMRet(r.store, files, r.ret)

\* StoreManager::get_ttl / ttl (no ensure_key_loaded)
SM_get_ttl(s, files, key, now) ==
    LET r == Store_get_ttl(s, key, now)
    IN SMRet(r.store, files, r.ret)

(***************************************************************************)
(* Operations on one WriteAheadLog instance (specification SpecWal):       *)
(* the appends of begin / put / delete / commit / rollback / checkpoint,   *)
(* recover() and reopening the log file in a fresh instance.               *)
(***************************************************************************)
CurrentWal == WalState(wal_file, ckpt_files, wal, wal_alive)

InstallWal(st) ==
    /\ wal_file' = st.file
    /\ ckpt_files' = st.ckpts
    /\ wal' = st.wal
    /\ wal_alive' = st.alive

CanAppend == wal_alive /\ Len(wal_file) < MaxLogLen

\* StorageConfig::default as far as the Store reads it
DefaultSettings ==
    [enable_default_expiry |-> FALSE,
     default_expiry_seconds |-> DefaultExpirySeconds,
     background_optimization_enabled |-> FALSE]

\* StoreManager::new: an empty Store, no memory manager, no settings
StoreIdle ==
    /\ store = Store_new
    /\ disk_files = NoFiles
    /\ snapshot_file = None
    /\ store2 = None
    /\ clock = 0
    /\ settings = DefaultSettings
    /\ memory_manager = None

NoCommand ==
    [cmd |-> "", key |-> "", resp |-> "", ok |-> TRUE,
     wal_len_before |-> 0, txn_before |-> None,
     time |-> 0, tracked |-> None, was_expired |-> FALSE, after_save |-> FALSE]

\* a connection that has issued no command yet
CmdIdle ==
    /\ last_cmd = NoCommand
    /\ conn = [open_txn |-> None, pre_begin |-> None]
    /\ expiring = [k \in Keys |-> None]

\* the connection threads of SpecConc; none has a command in progress
Clients == {"c1", "c2"}

IdleClient ==
    [pc |-> "idle", cmd |-> "", key |-> "", value |-> "", content |-> None,
     expect |-> None]

\* the background optimization thread between two passes
SleepingOffloader == [pc |-> "sleep", keys |-> <<>>, data |-> None]

NoAnswer == [client |-> "", cmd |-> "", key |-> "", resp |-> "", expect |-> None]

NoHistory ==
    [acked       |-> [k \in Keys |-> None],
     undisturbed |-> [k \in Keys |-> TRUE],
     serial      |-> TRUE,
     returned    |-> NoAnswer]

ConcIdle ==
    /\ clients = [c \in Clients |-> IdleClient]
    /\ offloader = SleepingOffloader
    /\ history = NoHistory

\* the threads of SpecTxn; none has a call in progress
Workers == {"w1", "w2"}

IdleWorker ==
    [pc |-> "idle", op |-> "", txn |-> 0, timeout |-> 0, sweeping |-> FALSE,
     todo |-> <<>>, timed_out |-> <<>>, next_id |-> 0, appended |-> 0]

NoCall == [worker |-> "", op |-> "", txn |-> 0, ret |-> <<"ok", 0>>, appended |-> 0]

\* TransactionManager::new on an empty log at time 0
TxnIdle ==
    /\ manager = [active_transactions |-> {}, next_txn_id |-> 1,
                  auto_checkpoint |-> TRUE, operation_count |-> 0,
                  checkpoint_threshold |-> DefaultCheckpointThreshold]
    /\ workers = [w \in Workers |-> IdleWorker]
    /\ txn_history = [begun |-> <<>>, last |-> NoCall]

\* Server::new: not running, start() not yet called, no connection
SrvIdle ==
    server = [running |-> FALSE, pc |-> "new", conn |-> "none",
              pending |-> None, acked |-> {}]

WalInit ==
    /\ wal_file = <<>>
    /\ ckpt_files = {}
    /\ \E interval \in {TestCheckpointInterval, DefaultCheckpointInterval} :
          wal = WriteAheadLog_new(<<>>, interval)
    /\ wal_alive = TRUE
    /\ recovered = None
    /\ StoreIdle
    /\ CmdIdle
    /\ ConcIdle
    /\ TxnIdle
    /\ SrvIdle

\* WriteAheadLog::begin
WalBegin(id) ==
    /\ CanAppend
    /\ \E depth \in 1..OverflowDepth :
          InstallWal(append_entry(CurrentWal, LogEntry_new("BEGIN", None, None, id), depth))
    /\ recovered' = None
    /\ UNCHANGED <<storeVars, cmdVars, concVars, txnVars, srvVars>>

\* append_entry of a Put entry
WalPut(id, k, v) ==
    /\ CanAppend
    /\ \E depth \in 1..OverflowDepth :
          InstallWal(append_entry(CurrentWal, LogEntry_new("PUT", Some(k), Some(v), id), depth))
    /\ recovered' = None
    /\ UNCHANGED <<storeVars, cmdVars, concVars, txnVars, srvVars>>

\* append_entry of a Delete entry
WalDelete(id, k) ==
    /\ CanAppend
    /\ \E depth \in 1..OverflowDepth :
          InstallWal(append_entry(CurrentWal, LogEntry_new("DELETE", Some(k), None, id), depth))
    /\ recovered' = None
    /\ UNCHANGED <<storeVars, cmdVars, concVars, txnVars, srvVars>>

\* WriteAheadLog::commit (TransactionNotFound leaves everything unchanged)
WalCommit(id) ==
    /\ CanAppend
    /\ vec_contains(wal.active_transactions, id)
    /\ \E depth \in 1..OverflowDepth :
          InstallWal(append_entry(CurrentWal, LogEntry_new("COMMIT", None, None, id), depth))
    /\ recovered' = None
    /\ UNCHANGED <<storeVars, cmdVars, concVars, txnVars, srvVars>>

\* WriteAheadLog::rollback
WalRollback(id) ==
    /\ CanAppend
    /\ vec_contains(wal.active_transactions, id)
    /\ \E depth \in 1..OverflowDepth :
          InstallWal(append_entry(CurrentWal, LogEntry_new("ROLLBACK", None, None, id), depth))
    /\ recovered' = None
    /\ UNCHANGED <<storeVars, cmdVars, concVars, txnVars, srvVars>>

\* WriteAheadLog::create_checkpoint with the caller's snapshot (or None)
WalCheckpoint(snapshot) ==
    /\ CanAppend
    /\ \E depth \in 1..OverflowDepth :
          InstallWal(create_checkpoint(CurrentWal, snapshot, depth))
    /\ recovered' = None
    /\ UNCHANGED <<storeVars, cmdVars, concVars, txnVars, srvVars>>

\* WriteAheadLog::recover on the live instance
WalRecover ==
    /\ wal_alive
    /\ recovered = None
    /\ recovered' = Some(recover(CurrentWal))
    /\ UNCHANGED <<wal_file, ckpt_files, wal, wal_alive, storeVars, cmdVars, concVars, txnVars, srvVars>>

\* WriteAheadLog::new on the same log file (after a restart or a crash)
WalReopen ==
    /\ wal' = WriteAheadLog_new(wal_file, wal.checkpoint_interval)
    /\ wal_alive' = TRUE
    /\ recovered' = None
    /\ wal' # wal \/ ~wal_alive \/ recovered # None
    /\ UNCHANGED <<wal_file, ckpt_files, storeVars, cmdVars, concVars, txnVars, srvVars>>

\* WriteAheadLog::compact on the live instance
WalCompact ==
    /\ CanAppend
    /\ Cardinality(ckpt_files) < MaxCheckpointFiles
    /\ \E depth \in 1..OverflowDepth : InstallWal(compact(CurrentWal, depth))
    /\ recovered' = None
    /\ UNCHANGED <<storeVars, cmdVars, concVars, txnVars, srvVars>>

Snapshots == {None} \cup {Some([k \in WalKeys |-> Some(v)]) : v \in WalValues}

WalNext ==
    \/ \E id \in TxnIds : WalBegin(id)
    \/ \E id \in TxnIds, k \in WalKeys, v \in WalValues : WalPut(id, k, v)
    \/ \E id \in TxnIds, k \in WalKeys : WalDelete(id, k)
    \/ \E id \in TxnIds : WalCommit(id)
    \/ \E id \in TxnIds : WalRollback(id)
    \/ \E snapshot \in Snapshots : WalCheckpoint(snapshot)
    \/ WalCompact
    \/ WalRecover
    \/ WalReopen

SpecWal == WalInit /\ [][WalNext]_vars

(***************************************************************************)
(* TransactionManager (transaction.rs) and TransactionCommandHandler       *)
(* (transaction_cmd.rs).  Message texts are given in English.              *)
(***************************************************************************)
Err(msg) == <<"err", msg>>

RECURSIVE scan_manager_active(_, _)
scan_manager_active(entries, active) ==
    IF entries = <<>> THEN active
    ELSE LET e == Head(entries)
         IN scan_manager_active(Tail(entries),
               IF e.command = "BEGIN" THEN active \cup {e.id}
               ELSE IF e.command \in {"COMMIT", "ROLLBACK"} THEN active \ {e.id}
               ELSE active)

\* TransactionManager::new
TransactionManager_new(file, ckpts, now) ==
    LET entries == load_entries(file)
        last_id == scan_last_id(entries, now)
    IN [wal_st              |-> WalState(file, ckpts,
                                   WriteAheadLog_new(file, DefaultCheckpointInterval), TRUE),
        active_transactions |-> scan_manager_active(entries, {}),
        next_txn_id         |-> last_id + 1]

\* TransactionManager::begin_transaction
begin_transaction(m) ==
    LET txn_id == m.next_txn_id + 1
        st == append_entry(m.wal_st, LogEntry_new("BEGIN", None, None, txn_id), 1)
    IN [manager |-> [m EXCEPT !.next_txn_id = txn_id,
                              !.wal_st = st,
                              !.active_transactions = @ \cup {txn_id}],
        ret |-> Ok(txn_id)]

\* TransactionManager::commit_transaction / rollback_transaction
end_transaction(m, txn_id, command) ==
    IF txn_id \notin m.active_transactions
        THEN [manager |-> m, ret |-> Err("transaction not found")]
    ELSE IF ~vec_contains(m.wal_st.wal.active_transactions, txn_id)
        THEN [manager |-> m, ret |-> Err("transaction not found")]
    ELSE [manager |-> [m EXCEPT
                         !.wal_st = append_entry(m.wal_st,
                                       LogEntry_new(command, None, None, txn_id), 1),
                         !.active_transactions = @ \ {txn_id}],
          ret |-> Ok(TRUE)]
commit_transaction(m, txn_id) == end_transaction(m, txn_id, "COMMIT")
rollback_transaction(m, txn_id) == end_transaction(m, txn_id, "ROLLBACK")

\* TransactionManager::list_active_transactions
list_active_transactions(m) == m.active_transactions

\* TransactionCommandHandler::new: a new manager on the log file and
\* current_transaction_id = None
TransactionCommandHandler_new(file, ckpts, now) ==
    [txn_manager |-> TransactionManager_new(file, ckpts, now),
     current_transaction_id |-> None]

\* TransactionCommandHandler::checkpoint: TransactionManager::create_checkpoint
\* with HashMap::new() as the data
Handler_checkpoint(h) ==
    LET id == h.txn_manager.wal_st.wal.last_sequence_number + 1
        st == create_checkpoint(h.txn_manager.wal_st, Some(EmptyMap), 1)
    IN [handler |-> [h EXCEPT !.txn_manager.wal_st = st],
        ret |-> Ok("checkpoint " \o ToString(id) \o " created")]

\* TransactionCommandHandler::begin
Handler_begin(h) ==
    IF h.current_transaction_id # None
        THEN [handler |-> h, ret |-> Err("already in a transaction, no nesting")]
    ELSE LET r == begin_transaction(h.txn_manager)
         IN [handler |-> [txn_manager |-> r.manager,
                          current_transaction_id |-> Some(r.ret[2])],
             ret |-> Ok("transaction " \o ToString(r.ret[2]) \o " started")]

\* TransactionCommandHandler::commit
Handler_commit(h) ==
    IF h.current_transaction_id = None
        THEN [handler |-> h, ret |-> Err("not in a transaction, cannot commit")]
    ELSE LET txn_id == h.current_transaction_id[1]
             r == commit_transaction(h.txn_manager, txn_id)
         IN IF is_ok(r.ret)
            THEN [handler |-> [txn_manager |-> r.manager, current_transaction_id |-> None],
                  ret |-> Ok("transaction " \o ToString(txn_id) \o " committed")]
            ELSE [handler |-> h, ret |-> Err("commit failed: " \o r.ret[2])]

\* TransactionCommandHandler::rollback
Handler_rollback(h) ==
    IF h.current_transaction_id = None
        THEN [handler |-> h, ret |-> Err("not in a transaction, cannot roll back")]
    ELSE LET txn_id == h.current_transaction_id[1]
             r == rollback_transaction(h.txn_manager, txn_id)
         IN IF is_ok(r.ret)
            THEN [handler |-> [txn_manager |-> r.manager, current_transaction_id |-> None],
                  ret |-> Ok("transaction " \o ToString(txn_id) \o " rolled back")]
            ELSE [handler |-> h, ret |-> Err("rollback failed: " \o r.ret[2])]

(***************************************************************************)
(* Response texts of CommandHandler::execute_command (command.rs)          *)
(***************************************************************************)
error_text(ret) == "ERROR: " \o ret[2]

RECURSIVE join(_, _)
join(lines, sep) ==
    IF lines = <<>> THEN ""
    ELSE IF Len(lines) = 1 THEN lines[1]
    ELSE lines[1] \o sep \o join(Tail(lines), sep)

\* Set arm: Ok(result) => result
render_string(ret) == IF is_ok(ret) THEN ret[2] ELSE error_text(ret)

\* Get / LPop / RPop / HGet arms
render_option(ret) ==
    IF ~is_ok(ret) THEN error_text(ret)
    ELSE IF ret[2] = None THEN "(nil)" ELSE ret[2][1]

\* Del / LDel / HSet / HDel / SRem / Expire arms
render_bool(ret) ==
    IF ~is_ok(ret) THEN error_text(ret)
    ELSE IF ret[2] THEN "1" ELSE "0"

\* LPush / RPush / Len / SAdd arms
render_count(ret) == IF is_ok(ret) THEN ToString(ret[2]) ELSE error_text(ret)

\* Range arm
render_list(ret) ==
    IF ~is_ok(ret) THEN error_text(ret)
    ELSE IF ret[2] = <<>> THEN "(empty list)" ELSE join(ret[2], "\n")

\* the orders in which a HashSet of members can be iterated
orderings(members) ==
    {q \in UNION {[1..n -> members] : n \in {Cardinality(members)}} :
        \A i, j \in 1..Len(q) : i # j => q[i] # q[j]}

\* SMembers arm, for one iteration order of the set
render_members(ret, order) ==
    IF ~is_ok(ret) THEN error_text(ret)
    ELSE IF ret[2] = {} THEN "(empty set)" ELSE join(order, "\n")

\* DDL arm
render_ttl(ret) ==
    IF ~is_ok(ret) THEN error_text(ret)
    ELSE IF ret[2] = -2 THEN "Key does not exist"
    ELSE IF ret[2] = -1 THEN "No expiration"
    ELSE "TTL: " \o ToString(ret[2]) \o " seconds"

(***************************************************************************)
(* One connection driving CommandHandler::execute_command of the server    *)
(* (specification SpecCmd).  The server builds its StoreManager with       *)
(* StoreManager::new().with_wal(..): no settings and no memory manager.    *)
(***************************************************************************)
CmdKeys == {"k1"}

\* the largest access_count, list length and string length that are explored
\* CommandHandler::parse_command, "set key value EX n": the value handed to
\* Command::Set is value + " EX " + n
ExSuffix(seconds) == " EX " \o ToString(seconds)
ExStrings == {v \o ExSuffix(n) : v \in Values, n \in {1, 2}}

BoundedStore(s) ==
    \A k \in Keys :
        /\ s.metadata[k] # None => s.metadata[k][1].access_count <= MaxAccessCount
        /\ s.data[k] # None => /\ Len(s.data[k][1].l) <= MaxListLen
                               /\ \/ Len(s.data[k][1].s) <= MaxStrLen
                                  \/ s.data[k][1].s \in ExStrings

\* what the read commands of a connection answer for one key
Observation(s, files, k, now) ==
    [get      |-> render_option(SM_get_string(s, files, k, now).ret),
     range    |-> render_list(SM_lrange(s, files, k, 0, -1, now).ret),
     hget     |-> [f \in Fields |-> render_option(SM_hget(s, files, k, f, now).ret)],
     smembers |-> SM_smembers(s, files, k, now).ret,
     ddl      |-> render_ttl(SM_get_ttl(s, files, k, now).ret)]

Executed(cmd, key, resp, ok) ==
    [cmd |-> cmd, key |-> key, resp |-> resp, ok |-> ok,
     wal_len_before |-> Len(wal_file), txn_before |-> conn.open_txn,
     time |-> clock,
     tracked |-> IF key \in Keys THEN expiring[key] ELSE None,
     was_expired |-> key \in Keys /\ is_expired(store, key, clock),
     after_save |-> last_cmd.cmd = "save"]

\* the commands that write or remove their key
WriteCommands ==
    {"set", "append", "del", "lpush", "rpush", "lpop", "rpop", "ldel",
     "hset", "hdel", "sadd", "srem"}

\* a store command: the StoreManager call and the response of its match arm
StoreCommand(cmd, key, r, resp) ==
    /\ BoundedStore(r.store)
    /\ store' = r.store
    /\ disk_files' = r.files
    /\ last_cmd' = Executed(cmd, key, resp, is_ok(r.ret))
    /\ expiring' = IF cmd \in WriteCommands THEN [expiring EXCEPT ![key] = None]
                   ELSE expiring
    /\ store2' = None
    /\ UNCHANGED <<walVars, snapshot_file, clock, settings, memory_manager, conn, concVars, txnVars, srvVars>>

WalIdle ==
    /\ wal_file = <<>>
    /\ ckpt_files = {}
    /\ wal = WriteAheadLog_new(<<>>, DefaultCheckpointInterval)
    /\ wal_alive = TRUE
    /\ recovered = None

CmdInit ==
    /\ WalIdle
    /\ StoreIdle
    /\ CmdIdle
    /\ ConcIdle
    /\ TxnIdle
    /\ SrvIdle

\* Command::Set
CmdSet(k, v) ==
    LET r == SM_set_string(store, disk_files, k, v, clock, settings)
    IN StoreCommand("set", k, r, render_string(r.ret))

\* Command::Get
CmdGet(k) ==
    LET r == SM_get_string(store, disk_files, k, clock)
    IN StoreCommand("get", k, r, render_option(r.ret))

\* Command::Del
CmdDel(k) ==
    LET r == SM_delete_key(store, disk_files, k)
    IN StoreCommand("del", k, r, render_bool(r.ret))

\* Command::LPush
CmdLPush(k, v) ==
    LET r == SM_lpush(store, disk_files, k, v, clock, settings)
    IN StoreCommand("lpush", k, r, render_count(r.ret))

\* Command::RPush
CmdRPush(k, v) ==
    LET r == SM_rpush(store, disk_files, k, v, clock, settings)
    IN StoreCommand("rpush", k, r, render_count(r.ret))

\* Command::LPop
CmdLPop(k) ==
    LET r == SM_lpop(store, disk_files, k, clock)
    IN StoreCommand("lpop", k, r, render_option(r.ret))

\* Command::RPop
CmdRPop(k) ==
    LET r == SM_rpop(store, disk_files, k, clock)
    IN StoreCommand("rpop", k, r, render_option(r.ret))

\* Command::LDel
CmdLDel(k) ==
    LET r == SM_delete_key(store, disk_files, k)
    IN StoreCommand("ldel", k, r, render_bool(r.ret))

\* Command::Range
CmdRange(k, start, end) ==
    LET r == SM_lrange(store, disk_files, k, start, end, clock)
    IN StoreCommand("range", k, r, render_list(r.ret))

\* Command::Range in a build with overflow checks when `end + 1` overflows:
\* lrange_internal panics on a non-empty list and the connection gets no answer
CmdRangeOverflow(k, start, end) ==
    LET e == ensure_key_loaded(store, disk_files, k, clock)
    IN /\ is_ok(e.ret)
       /\ ~is_expired(e.store, k, clock)
       /\ e.store.data[k] # None
       /\ e.store.data[k][1].type = "list"
       /\ e.store.data[k][1].l # <<>>
       /\ end >= 0
       /\ add_overflows(end, 1)
       /\ StoreCommand("range", k, SMRet(e.store, e.files, <<"err", "panicked">>),
                       "(connection closed)")

\* Command::HSet
CmdHSet(k, f, v) ==
    LET r == SM_hset(store, disk_files, k, f, v, clock, settings)
    IN StoreCommand("hset", k, r, render_bool(r.ret))

\* Command::HGet
CmdHGet(k, f) ==
    LET r == SM_hget(store, disk_files, k, f, clock)
    IN StoreCommand("hget", k, r, render_option(r.ret))

\* Command::HDel
CmdHDel(k, f) ==
    LET r == SM_hdel(store, disk_files, k, f, clock)
    IN StoreCommand("hdel", k, r, render_bool(r.ret))

\* Command::SAdd
CmdSAdd(k, members) ==
    LET r == SM_sadd(store, disk_files, k, members, clock, settings)
    IN StoreCommand("sadd", k, r, render_count(r.ret))

\* Command::SRem
CmdSRem(k, v) ==
    LET r == SM_srem(store, disk_files, k, v, clock)
    IN StoreCommand("srem", k, r, render_bool(r.ret))

\* Command::SMembers
CmdSMembers(k) ==
    LET r == SM_smembers(store, disk_files, k, clock)
    IN \E order \in (IF is_ok(r.ret) THEN orderings(r.ret[2]) ELSE {<<>>}) :
          StoreCommand("smembers", k, r, render_members(r.ret, order))

\* Command::Len
CmdLen(k) ==
    LET r == SM_llen(store, disk_files, k, clock)
    IN StoreCommand("len", k, r, render_count(r.ret))

\* Command::SIsMember
CmdSIsMember(k, v) ==
    LET r == SM_sismember(store, disk_files, k, v, clock)
    IN StoreCommand("sismember", k, r, render_bool(r.ret))

\* a transaction command: use_transaction_handler builds a new
\* TransactionCommandHandler on wal.log, runs f on it and drops it
TxnCommand(cmd, r) ==
    /\ wal_file' = r.handler.txn_manager.wal_st.file
    /\ ckpt_files' = r.handler.txn_manager.wal_st.ckpts
    /\ last_cmd' = Executed(cmd, "", render_string(r.ret), is_ok(r.ret))
    /\ UNCHANGED <<wal, wal_alive, recovered, storeVars, expiring, concVars, txnVars, srvVars>>

\* Command::Begin
CmdBegin ==
    /\ Len(wal_file) < MaxLogLen
    /\ LET r == Handler_begin(TransactionCommandHandler_new(wal_file, ckpt_files, clock))
       IN /\ TxnCommand("begin", r)
          /\ conn' = IF is_ok(r.ret)
                     THEN [open_txn  |-> r.handler.current_transaction_id,
                           pre_begin |-> Some([k \in Keys |->
                                            Observation(store, disk_files, k, clock)])]
                     ELSE conn

\* Command::Commit
CmdCommit ==
    /\ Len(wal_file) < MaxLogLen
    /\ LET r == Handler_commit(TransactionCommandHandler_new(wal_file, ckpt_files, clock))
       IN /\ TxnCommand("commit", r)
          /\ conn' = IF is_ok(r.ret) THEN [conn EXCEPT !.open_txn = None] ELSE conn

\* Command::Rollback
CmdRollback ==
    /\ Len(wal_file) < MaxLogLen
    /\ LET r == Handler_rollback(TransactionCommandHandler_new(wal_file, ckpt_files, clock))
       IN /\ TxnCommand("rollback", r)
          /\ conn' = IF is_ok(r.ret) THEN [conn EXCEPT !.open_txn = None] ELSE conn

\* Command::Checkpoint
CmdCheckpoint ==
    /\ Len(wal_file) < MaxLogLen
    /\ Cardinality(ckpt_files) < MaxCheckpointFiles
    /\ TxnCommand("checkpoint",
                  Handler_checkpoint(TransactionCommandHandler_new(wal_file, ckpt_files, clock)))
    /\ UNCHANGED conn

CmdNext ==
    \/ \E k \in CmdKeys, v \in Values : CmdSet(k, v)
    \/ \E k \in CmdKeys : CmdGet(k)
    \/ \E k \in CmdKeys : CmdDel(k)
    \/ \E k \in CmdKeys, v \in Values : CmdLPush(k, v)
    \/ \E k \in CmdKeys, v \in Values : CmdRPush(k, v)
    \/ \E k \in CmdKeys : CmdLPop(k)
    \/ \E k \in CmdKeys : CmdRPop(k)
    \/ \E k \in CmdKeys : CmdLDel(k)
    \/ \E k \in CmdKeys : CmdRange(k, 0, -1)
    \/ \E k \in CmdKeys, f \in Fields, v \in Values : CmdHSet(k, f, v)
    \/ \E k \in CmdKeys, f \in Fields : CmdHGet(k, f)
    \/ \E k \in CmdKeys, f \in Fields : CmdHDel(k, f)
    \/ \E k \in CmdKeys, v \in Values : CmdSAdd(k, <<v>>)
    \/ \E k \in CmdKeys, v \in Values : CmdSRem(k, v)
    \/ \E k \in CmdKeys : CmdSMembers(k)
    \/ CmdBegin
    \/ CmdCommit
    \/ CmdRollback

SpecCmd == CmdInit /\ [][CmdNext]_vars

(***************************************************************************)
(* Specification SpecCkpt: store commands on one connection interleaved    *)
(* with begin and checkpoint commands on the log file.                     *)
(***************************************************************************)
CkptNext ==
    \/ \E k \in CmdKeys, v \in Values : CmdSet(k, v)
    \/ \E k \in CmdKeys : CmdDel(k)
    \/ \E k \in CmdKeys, v \in Values : CmdLPush(k, v)
    \/ CmdBegin
    \/ CmdCheckpoint

SpecCkpt == CmdInit /\ [][CkptNext]_vars

(***************************************************************************)
(* MemoryManager (memory.rs) and the offload pass of the StoreManager      *)
(***************************************************************************)
MemoryManager_new(access_threshold, idle_time_threshold, max_memory_keys, enable) ==
    [access_threshold    |-> access_threshold,
     idle_time_threshold |-> idle_time_threshold,
     max_memory_keys     |-> max_memory_keys,
     enable_optimization |-> enable]

data_len(s) == Cardinality({k \in Keys : s.data[k] # None})

\* the comparator of candidates.sort_by: access_count, then last_access_time
meta_le(s, a, b) ==
    LET ma == s.metadata[a][1]
        mb == s.metadata[b][1]
    IN \/ ma.access_count < mb.access_count
       \/ /\ ma.access_count = mb.access_count
          /\ ma.last_access_time <= mb.last_access_time

\* MemoryManager::get_low_frequency_keys: the key lists it can return (keys
\* that compare equal come in the iteration order of the HashMap)
get_low_frequency_keys(s, mm, now) ==
    IF ~mm.enable_optimization \/ data_len(s) <= mm.max_memory_keys THEN {<<>>}
    ELSE LET candidates ==
                 {k \in Keys :
                     /\ s.metadata[k] # None
                     /\ s.data[k] # None
                     /\ \/ s.metadata[k][1].access_count < mm.access_threshold
                        \/ now - s.metadata[k][1].last_access_time
                              > mm.idle_time_threshold}
             keys_to_remove ==
                 imin(data_len(s) - mm.max_memory_keys, Cardinality(candidates))
         IN {q \in [1..keys_to_remove -> candidates] :
                /\ \A i, j \in 1..keys_to_remove : i < j =>
                       q[i] # q[j] /\ meta_le(s, q[i], q[j])
                /\ \A c \in candidates :
                       (\A i \in 1..keys_to_remove : q[i] # c) =>
                           \A i \in 1..keys_to_remove : meta_le(s, q[i], c)}

\* Store::should_optimize_memory over MemoryManager::should_optimize.  Its
\* second branch (pressure level >= 8) answers true only while data.len() <=
\* max_memory_keys, where get_low_frequency_keys returns the empty list, so
\* the pass is decided by the first branch.
should_optimize_memory(s, mm_opt) ==
    /\ mm_opt # None
    /\ mm_opt[1].enable_optimization
    /\ data_len(s) > mm_opt[1].max_memory_keys

\* StoreManager::offload_key_to_disk run without interference
offload_key_to_disk(s, files, key) ==
    IF serialize_key(s, key) = None THEN [store |-> s, files |-> files]
    ELSE [store |-> mark_as_disk_stored(s, key),
          files |-> [files EXCEPT ![key] = serialize_key(s, key)]]

RECURSIVE offload_keys(_, _, _)
offload_keys(s, files, keys) ==
    IF keys = <<>> THEN [store |-> s, files |-> files]
    ELSE LET r == offload_key_to_disk(s, files, Head(keys))
         IN offload_keys(r.store, r.files, Tail(keys))

\* the key lists one StoreManager::check_and_offload_low_frequency_data can
\* work on, after its sweep of the expired keys
offload_candidates(s, mm_opt, now) ==
    LET swept == clean_expired_keys(s, now)
    IN IF should_optimize_memory(swept, mm_opt)
       THEN get_low_frequency_keys(swept, mm_opt[1], now)
       ELSE {<<>>}

\* StoreManager::check_and_offload_low_frequency_data run without interference
check_and_offload_low_frequency_data(s, files, now, keys) ==
    offload_keys(clean_expired_keys(s, now), files, keys)

\* StoreManager::save_to_file: the optional offload pass, then the document
\* written to the data file (TransactionStoreManager::create_checkpoint is a
\* stub that returns Ok(0))
save_to_file(s, files, now, cfg, keys) ==
    LET r == IF cfg.background_optimization_enabled
             THEN check_and_offload_low_frequency_data(s, files, now, keys)
             ELSE [store |-> s, files |-> files]
    IN [store |-> r.store, files |-> r.files, written |-> Some(Store_serialize(r.store))]

\* StoreManager::load_from_file: an existing non-empty file is deserialized
\* into the store, a missing or empty one leaves the store as it is
load_from_file(s, file, now) ==
    IF file = None THEN s ELSE Store_deserialize(s, file[1], now)

(***************************************************************************)
(* One client driving a StoreManager and its Store while the clock         *)
(* advances (specification SpecSeq): writes, reads, expire and the sweep   *)
(* of the offload pass.                                                    *)
(***************************************************************************)
SeqKeys == {"k1"}
ExpirySeconds == {1, 2}

\* a small access threshold, idle threshold and memory budget, so that the
\* pass finds keys to move
SmallMemoryManager == MemoryManager_new(4, 1, 0, TRUE)

SeqConfigurations ==
    { [settings |-> DefaultSettings, memory_manager |-> None],
      [settings |-> [DefaultSettings EXCEPT !.enable_default_expiry = TRUE,
                                            !.default_expiry_seconds = 2],
       memory_manager |-> None] }

SeqInit ==
    /\ WalIdle
    /\ store = Store_new
    /\ disk_files = NoFiles
    /\ snapshot_file = None
    /\ store2 = None
    /\ clock = 0
    /\ \E c \in SeqConfigurations :
          settings = c.settings /\ memory_manager = c.memory_manager
    /\ CmdIdle
    /\ ConcIdle
    /\ TxnIdle
    /\ SrvIdle

\* the clock advances by one second
Tick ==
    /\ clock < MaxTime
    /\ clock' = clock + 1
    /\ store2' = None
    /\ UNCHANGED <<walVars, store, disk_files, snapshot_file, settings,
                   memory_manager, cmdVars, concVars, txnVars, srvVars>>

\* StringOperations::append on the locked Store (the StoreManager has no proxy)
SeqAppend(k, v) ==
    LET r == Store_append(store, k, v, clock, settings)
    IN StoreCommand("append", k, SMRet(r.store, disk_files, r.ret), render_count(r.ret))

\* "set k v EX n" as parse_command and the Set arm execute it
SeqSetEx(k, v, n) == CmdSet(k, v \o ExSuffix(n))

\* Command::Expire
SeqExpire(k, seconds) ==
    LET r == SM_set_expire(store, disk_files, k, seconds, clock)
        held == Store_get_string(store, k, clock)
    IN /\ store' = r.store
       /\ last_cmd' = Executed("expire", k, render_bool(r.ret), is_ok(r.ret))
       /\ expiring' = [expiring EXCEPT ![k] =
                          IF r.ret = Ok(TRUE) /\ held # None
                          THEN Some([value |-> held[1], deadline |-> clock + seconds])
                          ELSE None]
       /\ store2' = None
       /\ UNCHANGED <<walVars, disk_files, snapshot_file, clock, settings,
                      memory_manager, conn, concVars, txnVars, srvVars>>

\* Command::DDL
SeqDDL(k) ==
    LET r == SM_get_ttl(store, disk_files, k, clock)
    IN StoreCommand("ddl", k, r, render_ttl(r.ret))

\* StoreManager::check_and_offload_low_frequency_data
SeqOffloadPass ==
    \E keys \in offload_candidates(store, memory_manager, clock) :
        LET r == check_and_offload_low_frequency_data(store, disk_files, clock, keys)
        IN /\ store' = r.store
           /\ disk_files' = r.files
           /\ last_cmd' = Executed("offload", "", ToString(Len(keys)), TRUE)
           /\ store2' = None
           /\ UNCHANGED <<walVars, snapshot_file, clock, settings,
                          memory_manager, conn, expiring, concVars, txnVars, srvVars>>

\* Command::Save
SnapSave ==
    \E keys \in offload_candidates(store, memory_manager, clock) :
        LET r == save_to_file(store, disk_files, clock, settings, keys)
        IN /\ store' = r.store
           /\ disk_files' = r.files
           /\ snapshot_file' = r.written
           /\ last_cmd' = Executed("save", "", "Saved", TRUE)
           /\ store2' = None
           /\ UNCHANGED <<walVars, clock, settings, memory_manager, conn, expiring, concVars, txnVars, srvVars>>

\* StoreManager::new() followed by load_from_file of the data file; the new
\* manager is dropped by the next step
SnapLoad ==
    /\ store2' = Some(load_from_file(Store_new, snapshot_file, clock))
    /\ last_cmd' = Executed("load", "", "", TRUE)
    /\ UNCHANGED <<walVars, store, disk_files, snapshot_file, clock, settings,
                   memory_manager, conn, expiring, concVars, txnVars, srvVars>>

SeqNext ==
    \/ Tick
    \/ \E k \in SeqKeys, v \in Values : CmdSet(k, v)
    \/ \E k \in SeqKeys : SeqSetEx(k, "a", 1)
    \/ \E k \in SeqKeys : CmdGet(k)
    \/ \E k \in SeqKeys : CmdDel(k)
    \/ \E k \in SeqKeys, v \in Values : SeqAppend(k, v)
    \/ \E k \in SeqKeys, v \in Values : CmdLPush(k, v)
    \/ \E k \in SeqKeys, v \in Values : CmdRPush(k, v)
    \/ \E k \in SeqKeys : CmdRange(k, 0, -1)
    \/ \E k \in SeqKeys, f \in Fields, v \in Values : CmdHSet(k, f, v)
    \/ \E k \in SeqKeys, f \in Fields : CmdHGet(k, f)
    \/ \E k \in SeqKeys, v \in Values : CmdSAdd(k, <<v>>)
    \/ \E k \in SeqKeys : CmdSMembers(k)
    \/ \E k \in SeqKeys, n \in ExpirySeconds : SeqExpire(k, n)
    \/ \E k \in SeqKeys : SeqDDL(k)
    \/ SeqOffloadPass

SpecSeq == SeqInit /\ [][SeqNext]_vars

(***************************************************************************)
(* Snapshots (specification SpecSnap): one client of a StoreManager with   *)
(* memory optimization, the offload pass, save_to_file, and a new          *)
(* StoreManager that loads the data file.                                  *)
(***************************************************************************)
(***************************************************************************)
(* CommandHandler::parse_command on a request line that has been split at  *)
(* white space, and the execution of what it returns (specification        *)
(* SpecParse).                                                             *)
(***************************************************************************)
RequestVerbs == {"set", "SET", "get", "expire", "begin", "bogus"}
RequestArgs == {"k1", "A", "1"}
MaxRequestArgs == 3

RECURSIVE ArgLists(_)
ArgLists(n) ==
    IF n = 0 THEN {<<>>}
    ELSE ArgLists(n - 1)
         \cup {Append(a, t) : a \in {b \in ArgLists(n - 1) : Len(b) = n - 1},
                              t \in RequestArgs}

RequestLines ==
    {<<v>> \o a : v \in {"set", "SET"}, a \in ArgLists(MaxRequestArgs)}
        \cup {<<v>> \o a : v \in RequestVerbs, a \in ArgLists(MaxRequestArgs - 1)}

\* str::to_lowercase / str::to_uppercase on the tokens of RequestLines
to_lowercase(t) ==
    CASE t = "SET" -> "set" [] t = "A" -> "a" [] t = "EX" -> "ex" [] OTHER -> t
to_uppercase(t) ==
    CASE t = "set" -> "SET" [] t = "get" -> "GET" [] t = "expire" -> "EXPIRE"
      [] t = "begin" -> "BEGIN" [] t = "bogus" -> "BOGUS" [] t = "k1" -> "K1"
      [] OTHER -> t

\* str::parse::<u64> / str::parse::<isize>: None when the token is no number
parse_int(t) == IF t = "1" THEN Some(1) ELSE None

Command(name, key, value, seconds) ==
    [name |-> name, key |-> key, value |-> value, seconds |-> seconds]
Invalid(msg) == Command("Invalid", "", msg, 0)

\* CommandHandler::parse_command, the arms of set, get, expire and begin and
\* the default arm
parse_command(parts) ==
    LET n == Len(parts)
    IN IF n = 0 THEN Invalid("Empty command")
       ELSE CASE to_lowercase(parts[1]) = "set" ->
                   IF n < 3 THEN Invalid("Usage: SET key value [EX seconds]")
                   ELSE IF n >= 5 /\ to_uppercase(parts[n - 1]) = "EX"
                           /\ parse_int(parts[n]) # None
                        THEN Command("Set", parts[2],
                                     join(SubSeq(parts, 3, n - 2), " ")
                                        \o ExSuffix(parse_int(parts[n])[1]), 0)
                        ELSE Command("Set", parts[2], join(SubSeq(parts, 3, n), " "), 0)
              [] to_lowercase(parts[1]) = "get" ->
                   IF n # 2 THEN Invalid("Usage: GET key")
                   ELSE Command("Get", parts[2], "", 0)
              [] to_lowercase(parts[1]) = "expire" ->
                   IF n # 3 THEN Invalid("Usage: EXPIRE key seconds")
                   ELSE IF parse_int(parts[3]) = None
                        THEN Invalid("Seconds must be a positive integer")
                        ELSE Command("Expire", parts[2], "", parse_int(parts[3])[1])
              [] to_lowercase(parts[1]) \in {"begin", "multi"} ->
                   Command("Begin", "", "", 0)
              [] OTHER -> Invalid("Unknown command: " \o parts[1])

\* Command::Invalid
CmdInvalid(msg) ==
    /\ last_cmd' = Executed("invalid", "", "ERROR: " \o msg, FALSE)
    /\ UNCHANGED <<walVars, storeVars, conn, expiring, concVars, txnVars, srvVars>>

\* parse_command followed by execute_command, for the keys of SeqKeys
Request(parts) ==
    LET c == parse_command(parts)
    IN \/ c.name = "Invalid" /\ CmdInvalid(c.value)
       \/ c.name = "Set" /\ c.key \in SeqKeys /\ CmdSet(c.key, c.value)
       \/ c.name = "Get" /\ c.key \in SeqKeys /\ CmdGet(c.key)
       \/ c.name = "Expire" /\ c.key \in SeqKeys /\ SeqExpire(c.key, c.seconds)
       \/ c.name = "Begin" /\ CmdBegin

ParseNext == \E parts \in RequestLines : Request(parts)

SpecParse == CmdInit /\ [][ParseNext]_vars

(***************************************************************************)
(* Specification SpecRange: one connection that builds a list and reads    *)
(* it with range for every pair of isize arguments.                        *)
(***************************************************************************)
TypeValues == {"a", "b"}

RangeNext ==
    \/ \E k \in SeqKeys, v \in TypeValues : CmdLPush(k, v)
    \/ \E k \in SeqKeys, v \in TypeValues : CmdRPush(k, v)
    \/ \E k \in SeqKeys : CmdLPop(k)
    \/ \E k \in SeqKeys : CmdLDel(k)
    \/ \E k \in SeqKeys, start \in Isize, end \in Isize : CmdRange(k, start, end)
    \/ \E k \in SeqKeys, start \in Isize, end \in Isize : CmdRangeOverflow(k, start, end)

SpecRange == CmdInit /\ [][RangeNext]_vars

(***************************************************************************)
(* Specification SpecType: one connection, one key that changes its        *)
(* variant (set, lpush, rpush, hset, sadd), gets an expiry and is read and *)
(* written by the commands of every variant.                               *)
(***************************************************************************)
TypeMembers == {<<"a">>, <<"a", "b">>, <<"b", "b">>}

TypeNext ==
    \/ clock < MaxTypeTime /\ Tick
    \/ \E k \in SeqKeys : CmdSet(k, "a")
    \/ \E k \in SeqKeys : CmdGet(k)
    \/ \E k \in SeqKeys, v \in TypeValues : CmdLPush(k, v)
    \/ \E k \in SeqKeys, v \in TypeValues : CmdRPush(k, v)
    \/ \E k \in SeqKeys : CmdLPop(k)
    \/ \E k \in SeqKeys : CmdRPop(k)
    \/ \E k \in SeqKeys : CmdLen(k)
    \/ \E k \in SeqKeys : CmdRange(k, 0, -1)
    \/ \E k \in SeqKeys, f \in Fields : CmdHSet(k, f, "a")
    \/ \E k \in SeqKeys, f \in Fields : CmdHGet(k, f)
    \/ \E k \in SeqKeys, f \in Fields : CmdHDel(k, f)
    \/ \E k \in SeqKeys, members \in TypeMembers : CmdSAdd(k, members)
    \/ \E k \in SeqKeys, v \in TypeValues : CmdSRem(k, v)
    \/ \E k \in SeqKeys, v \in TypeValues : CmdSIsMember(k, v)
    \/ \E k \in SeqKeys : CmdSMembers(k)
    \/ \E k \in SeqKeys : SeqExpire(k, 2)

SpecType == CmdInit /\ [][TypeNext]_vars

SnapConfigurations ==
    { [settings |-> DefaultSettings, memory_manager |-> Some(SmallMemoryManager)],
      [settings |-> [DefaultSettings EXCEPT !.background_optimization_enabled = TRUE],
       memory_manager |-> Some(SmallMemoryManager)] }

SnapInit ==
    /\ WalIdle
    /\ store = Store_new
    /\ disk_files = NoFiles
    /\ snapshot_file = None
    /\ store2 = None
    /\ clock = 0
    /\ \E c \in SnapConfigurations :
          settings = c.settings /\ memory_manager = c.memory_manager
    /\ CmdIdle
    /\ ConcIdle
    /\ TxnIdle
    /\ SrvIdle

SnapValues == {"a"}

SnapNext ==
    \/ Tick
    \/ \E k \in SeqKeys, v \in SnapValues : CmdSet(k, v)
    \/ \E k \in SeqKeys : CmdGet(k)
    \/ \E k \in SeqKeys : CmdDel(k)
    \/ \E k \in SeqKeys, v \in SnapValues : CmdLPush(k, v)
    \/ \E k \in SeqKeys, n \in ExpirySeconds : SeqExpire(k, n)
    \/ \E k \in SeqKeys : SeqDDL(k)
    \/ SeqOffloadPass
    \/ SnapSave
    \/ SnapLoad

SpecSnap == SnapInit /\ [][SnapNext]_vars

(***************************************************************************)
(* C1 -- WAL durability.  Once the Commit entry of a transaction is in the *)
(* log, the map returned by recover() (live or reopened instance) holds,   *)
(* for every key touched by a committed transaction after the latest       *)
(* checkpoint, the result of applying the committed Put/Delete entries in  *)
(* log order on top of the checkpoint data.                                *)
(***************************************************************************)
\* the replay the claim describes: operations are buffered per transaction
\* and applied when its Commit entry is read
RECURSIVE CommittedReplay(_, _, _)
CommittedReplay(entries, data, buffered) ==
    IF entries = <<>> THEN data
    ELSE LET e == Head(entries)
         IN CASE e.command \in {"PUT", "DELETE"} ->
                    CommittedReplay(Tail(entries), data,
                                    [buffered EXCEPT ![e.id] = Append(@, e)])
              [] e.command = "COMMIT" ->
                    CommittedReplay(Tail(entries), apply_ops(data, buffered[e.id]),
                                    [buffered EXCEPT ![e.id] = <<>>])
              [] e.command = "ROLLBACK" ->
                    CommittedReplay(Tail(entries), data, [buffered EXCEPT ![e.id] = <<>>])
              [] OTHER -> CommittedReplay(Tail(entries), data, buffered)

EntriesAfterCheckpoint ==
    LET entries == load_entries(wal_file)
        cps == {i \in 1..Len(entries) : entries[i].command = "CHECKPOINT"}
        last == IF cps = {} THEN 0 ELSE CHOOSE i \in cps : \A j \in cps : j <= i
    IN SubSeq(entries, last + 1, Len(entries))

CheckpointData ==
    LET c == get_latest_checkpoint(CurrentWal)
    IN IF c = None THEN EmptyMap ELSE c[1]

DurableData ==
    CommittedReplay(EntriesAfterCheckpoint, CheckpointData,
                    [i \in {EntriesAfterCheckpoint[j].id : j \in 1..Len(EntriesAfterCheckpoint)} |-> <<>>])

C1_WalDurability == recovered # None => recovered[1] = DurableData

(***************************************************************************)
(* C2 -- Rollback restores the pre-state at the command interface.  When   *)
(* a connection has opened a transaction with begin and then issues        *)
(* rollback, every key reads (get, range, hget, smembers) exactly as it    *)
(* read when begin was issued; in particular begin ; set k v ; rollback ;  *)
(* get k answers (nil) when k was absent.                                  *)
(***************************************************************************)
C2_RollbackRestoresPreState ==
    (last_cmd.cmd = "rollback" /\ last_cmd.txn_before # None)
        => \A k \in Keys :
              Observation(store, disk_files, k, clock) = conn.pre_begin[1][k]

(***************************************************************************)
(* C3 -- A transaction opened by begin is terminated by a later commit or  *)
(* rollback command of the same connection: the command answers with a    *)
(* success status, the transaction is no longer active for a transaction   *)
(* manager on the log, and the log holds its Commit or Rollback entry.     *)
(***************************************************************************)
HasTerminalEntry(file, id) ==
    \E i \in 1..Len(file) :
        /\ deserialize(file[i]).command \in {"COMMIT", "ROLLBACK"}
        /\ deserialize(file[i]).id = id

C3_CommitTerminatesTransaction ==
    (last_cmd.cmd \in {"commit", "rollback"} /\ last_cmd.txn_before # None)
        => /\ last_cmd.ok
           /\ last_cmd.txn_before[1] \notin
                 list_active_transactions(
                     TransactionManager_new(wal_file, ckpt_files, clock))
           /\ HasTerminalEntry(wal_file, last_cmd.txn_before[1])

(***************************************************************************)
(* C4 -- WAL before acknowledgement.  When a mutating command (set, del,   *)
(* lpush, rpush, lpop, rpop, ldel, hset, hdel, sadd, srem) executed         *)
(* outside an explicit transaction has been answered, the log has grown by *)
(* an entry that names the command's key.                                  *)
(***************************************************************************)
MutatingCommands ==
    {"set", "del", "lpush", "rpush", "lpop", "rpop", "ldel",
     "hset", "hdel", "sadd", "srem"}

C4_WalBeforeAck ==
    (last_cmd.cmd \in MutatingCommands /\ last_cmd.txn_before = None)
        => \E i \in (last_cmd.wal_len_before + 1)..Len(wal_file) :
              deserialize(wal_file[i]).key = Some(last_cmd.key)


(***************************************************************************)
(* Connection threads and the background optimization thread sharing one   *)
(* StoreManager (specification SpecConc).  A step is one scope of the      *)
(* Store mutex or one file operation: StoreManager::set_string and         *)
(* get_string release the mutex between the test of load_key_from_disk,    *)
(* its deserialize_key and the operation itself; offload_key_to_disk       *)
(* releases it between serialize_key and mark_as_disk_stored.              *)
(***************************************************************************)
ConcKeys == {"k1"}
ConcCommands == {"get", "set"}
MaxConcAccessCount == 8

ConcMemoryManager ==
    MemoryManager_new(DefaultAccessThreshold, DefaultIdleTimeThreshold, 0, TRUE)

ConcBounded(s) ==
    \A k \in Keys :
        s.metadata[k] # None => s.metadata[k][1].access_count <= MaxConcAccessCount

ConcInit ==
    /\ WalIdle
    /\ store = Store_new
    /\ disk_files = NoFiles
    /\ snapshot_file = None
    /\ store2 = None
    /\ clock = 0
    /\ settings = [DefaultSettings EXCEPT !.background_optimization_enabled = TRUE]
    /\ memory_manager = Some(ConcMemoryManager)
    /\ CmdIdle
    /\ ConcIdle
    /\ TxnIdle
    /\ SrvIdle

InFlight(c) == clients[c].pc # "idle"

WritingKey(c, k) == InFlight(c) /\ clients[c].cmd = "set" /\ clients[c].key = k

\* the offloader is between serialize_key and mark_as_disk_stored of key k
OffloadingKey(k) ==
    offloader.pc \in {"write", "mark"} /\ Head(offloader.keys) = k

\* load_key_from_disk, first scope: a thread takes up a command and tests
\* whether its key has to be loaded
\* the Store mutex is free: no connection thread is inside the FlushDB arm,
\* blocked on the mutex it holds, or has panicked holding it (poisoned mutex)
StoreLockFree ==
    \A c \in Clients : clients[c].pc \notin {"flush_save", "deadlocked", "panicked"}

ClientCheck(c, cmd, k, v) ==
    LET needs_loading == ~contains_key(store, k) /\ k \in store.disk_keys
        others == {d \in Clients \ {c} : InFlight(d)}
    IN /\ clients[c].pc = "idle"
       /\ StoreLockFree
       /\ clients' =
            [d \in Clients |->
                IF d = c
                THEN [pc |-> IF needs_loading THEN "read" ELSE "op",
                      cmd |-> cmd, key |-> k,
                      value |-> IF cmd = "set" THEN v ELSE "",
                      content |-> None,
                      expect |-> IF cmd = "get" /\ history.serial /\ others = {}
                                 THEN history.acked[k] ELSE None]
                ELSE IF cmd = "set" /\ clients[d].key = k
                     THEN [clients[d] EXCEPT !.expect = None]
                     ELSE clients[d]]
       /\ history' =
            [history EXCEPT
                !.serial = @ /\ others = {},
                !.acked[k] = IF cmd = "set" THEN None ELSE @,
                !.undisturbed[k] = IF cmd = "set" THEN ~OffloadingKey(k) ELSE @]
       /\ UNCHANGED <<walVars, storeVars, cmdVars, offloader, txnVars, srvVars>>

\* the response of the match arm of execute_command
Answer(c, resp) ==
    [client |-> c, cmd |-> clients[c].cmd, key |-> clients[c].key,
     resp |-> resp, expect |-> clients[c].expect]

\* load_key_from_disk: std::fs::read_to_string; an error ends the command
ClientRead(c) ==
    LET k == clients[c].key
    IN /\ clients[c].pc = "read"
       /\ IF disk_files[k] = None
          THEN /\ clients' = [clients EXCEPT ![c] = IdleClient]
               /\ history' = [history EXCEPT
                                 !.returned = Answer(c, error_text(IoError))]
          ELSE /\ clients' = [clients EXCEPT ![c].pc = "deserialize",
                                             ![c].content = disk_files[k]]
               /\ UNCHANGED history
       /\ UNCHANGED <<walVars, storeVars, cmdVars, offloader, txnVars, srvVars>>

\* load_key_from_disk, second scope: Store::deserialize_key of what was read
ClientDeserialize(c) ==
    LET loaded == deserialize_key(store, clients[c].key, clients[c].content[1], clock)
    IN /\ clients[c].pc = "deserialize"
       /\ StoreLockFree
       /\ ConcBounded(loaded)
       /\ store' = loaded
       /\ clients' = [clients EXCEPT ![c].pc = "op"]
       /\ UNCHANGED <<walVars, disk_files, snapshot_file, store2, clock, settings,
                      memory_manager, cmdVars, offloader, history, txnVars, srvVars>>

\* the scope of the operation itself, and the answer to the connection
ClientOp(c) ==
    LET k == clients[c].key
        r == IF clients[c].cmd = "set"
             THEN Store_set(store, k, clients[c].value, clock, settings)
             ELSE Store_get(store, k, clock)
        resp == IF clients[c].cmd = "set" THEN render_string(r.ret)
                ELSE render_option(r.ret)
        writers == {d \in Clients \ {c} : WritingKey(d, k)}
    IN /\ clients[c].pc = "op"
       /\ StoreLockFree
       /\ ConcBounded(r.store)
       /\ store' = r.store
       /\ clients' = [clients EXCEPT ![c] = IdleClient]
       /\ history' =
            [history EXCEPT
                !.returned = Answer(c, resp),
                !.acked[k] = IF clients[c].cmd # "set" THEN @
                             ELSE IF writers = {} /\ is_ok(r.ret)
                                  THEN Some(clients[c].value) ELSE None]
       /\ UNCHANGED <<walVars, disk_files, snapshot_file, store2, clock, settings,
                      memory_manager, cmdVars, offloader, txnVars, srvVars>>

\* check_and_offload_low_frequency_data, first scope: the sweep
OffSweep ==
    /\ offloader.pc = "sleep"
    /\ StoreLockFree
    /\ store' = clean_expired_keys(store, clock)
    /\ offloader' = [offloader EXCEPT !.pc = "should"]
    /\ UNCHANGED <<walVars, disk_files, snapshot_file, store2, clock, settings,
                   memory_manager, cmdVars, clients, history, txnVars, srvVars>>

\* second scope: should_optimize_memory
OffShould ==
    /\ offloader.pc = "should"
    /\ StoreLockFree
    /\ offloader' = [offloader EXCEPT
                        !.pc = IF should_optimize_memory(store, memory_manager)
                               THEN "select" ELSE "sleep"]
    /\ UNCHANGED <<walVars, storeVars, cmdVars, clients, history, txnVars, srvVars>>

\* what the loop over low_freq_keys does once it is done with a key
NextKey(rest) ==
    [pc |-> IF rest = <<>> THEN "sleep" ELSE "serialize", keys |-> rest,
     data |-> None]

\* third scope: get_low_frequency_keys
OffSelect ==
    /\ offloader.pc = "select"
    /\ StoreLockFree
    /\ \E keys \in get_low_frequency_keys(store, memory_manager[1], clock) :
          offloader' = NextKey(keys)
    /\ UNCHANGED <<walVars, storeVars, cmdVars, clients, history, txnVars, srvVars>>

\* offload_key_to_disk, first scope: serialize_key
OffSerialize ==
    LET key == Head(offloader.keys)
        data == serialize_key(store, key)
    IN /\ offloader.pc = "serialize"
       /\ StoreLockFree
       /\ offloader' = IF data = None THEN NextKey(Tail(offloader.keys))
                       ELSE [offloader EXCEPT !.pc = "write", !.data = data]
       /\ UNCHANGED <<walVars, storeVars, cmdVars, clients, history, txnVars, srvVars>>

\* offload_key_to_disk: std::fs::write
OffWrite ==
    LET key == Head(offloader.keys)
    IN /\ offloader.pc = "write"
       /\ disk_files' = [disk_files EXCEPT ![key] = offloader.data]
       /\ offloader' = [offloader EXCEPT !.pc = "mark"]
       /\ history' = [history EXCEPT !.undisturbed[key] = FALSE]
       /\ UNCHANGED <<walVars, store, snapshot_file, store2, clock, settings,
                      memory_manager, cmdVars, clients, txnVars, srvVars>>

\* offload_key_to_disk, second scope: mark_as_disk_stored
OffMark ==
    LET key == Head(offloader.keys)
    IN /\ offloader.pc = "mark"
       /\ StoreLockFree
       /\ store' = mark_as_disk_stored(store, key)
       /\ offloader' = NextKey(Tail(offloader.keys))
       /\ history' = [history EXCEPT !.undisturbed[key] = FALSE]
       /\ UNCHANGED <<walVars, disk_files, snapshot_file, store2, clock, settings,
                      memory_manager, cmdVars, clients, txnVars, srvVars>>

\* Command::FlushDB, up to the call of save_to_file: the arm locks the Store
\* mutex, replaces the Store by Store::new() and keeps the guard
ClientFlushLock(c) ==
    /\ clients[c].pc = "idle"
    /\ StoreLockFree
    /\ store' = Store_new
    /\ memory_manager' = None
    /\ settings' = [settings EXCEPT !.enable_default_expiry = FALSE]
    /\ clients' = [clients EXCEPT ![c] = [IdleClient EXCEPT !.pc = "flush_save",
                                                            !.cmd = "flushdb"]]
    /\ history' = [history EXCEPT !.acked = [k \in Keys |-> None],
                                  !.serial = @ /\ \A d \in Clients \ {c} : ~InFlight(d)]
    /\ UNCHANGED <<walVars, disk_files, snapshot_file, store2, clock, cmdVars,
                   offloader, txnVars, srvVars>>

\* StoreManager::save_to_file called from the FlushDB arm: its first
\* self.store.lock() is taken by the thread that holds the guard, which
\* std::sync::Mutex answers by blocking for ever or by panicking
ClientFlushSave(c) ==
    /\ clients[c].pc = "flush_save"
    /\ \E outcome \in {"deadlocked", "panicked"} :
          clients' = [clients EXCEPT ![c].pc = outcome]
    /\ UNCHANGED <<walVars, storeVars, cmdVars, offloader, history, txnVars, srvVars>>

ConcNext ==
    \/ \E c \in Clients, cmd \in ConcCommands, k \in ConcKeys, v \in Values :
          ClientCheck(c, cmd, k, v)
    \/ \E c \in Clients : ClientRead(c)
    \/ \E c \in Clients : ClientDeserialize(c)
    \/ \E c \in Clients : ClientOp(c)
    \/ \E c \in Clients : ClientFlushLock(c)
    \/ \E c \in Clients : ClientFlushSave(c)
    \/ OffSweep
    \/ OffShould
    \/ OffSelect
    \/ OffSerialize
    \/ OffWrite
    \/ OffMark

SpecConc == ConcInit /\ [][ConcNext]_vars

(***************************************************************************)
(* Threads calling one TransactionManager, connections executing the begin *)
(* command through a TransactionCommandHandler of their own, and the       *)
(* timeout sweeper (specification SpecTxn).  A step is one scope of a lock *)
(* of the manager: the id counter, the WAL mutex, the RwLock of the active *)
(* table.                                                                  *)
(***************************************************************************)
TxnTimeouts == {0}
MaxTxnLogLen == 3
MaxTxnTime == 1

ActiveIds(m) == {t.id : t \in m.active_transactions}

\* the ids that have a Begin entry in the log
BegunIds(file) ==
    {deserialize(file[i]).id : i \in {j \in 1..Len(file) : deserialize(file[j]).command = "BEGIN"}}

\* a thread holds the read guard `txns` of check_transaction_timeouts
ReadGuardHeld == \E w \in Workers : workers[w].sweeping

\* every call in progress appends at most one more entry
CanStart(w) ==
    /\ workers[w].pc = "idle"
    /\ wal_alive
    /\ Len(wal_file) + Cardinality({v \in Workers : workers[v].pc # "idle"})
          < MaxTxnLogLen

Returned(w, op, txn, ret) ==
    [worker |-> w, op |-> op, txn |-> txn, ret |-> ret,
     appended |-> workers[w].appended]

\* begin_transaction, first scope: the id counter
BeginAlloc(w) ==
    /\ CanStart(w)
    /\ manager' = [manager EXCEPT !.next_txn_id = @ + 1]
    /\ workers' = [workers EXCEPT ![w] =
                      [IdleWorker EXCEPT !.pc = "wal_begin", !.op = "begin",
                                         !.txn = manager.next_txn_id + 1]]
    /\ UNCHANGED <<walVars, storeVars, cmdVars, concVars, srvVars, txn_history>>

\* begin_transaction, second scope: wal.begin(txn_id)
BeginLog(w) ==
    /\ workers[w].pc = "wal_begin"
    /\ InstallWal(append_entry(CurrentWal,
                     LogEntry_new("BEGIN", None, None, workers[w].txn), 1))
    /\ workers' = [workers EXCEPT ![w].pc = "insert", ![w].appended = @ + 1]
    /\ UNCHANGED <<recovered, storeVars, cmdVars, concVars, srvVars, manager, txn_history>>

\* begin_transaction, third scope: Transaction::new and the insertion into
\* the active table, then the id is returned
BeginInsert(w) ==
    /\ workers[w].pc = "insert"
    /\ ~ReadGuardHeld
    /\ manager' = [manager EXCEPT !.active_transactions =
                      {t \in @ : t.id # workers[w].txn}
                          \cup {[id |-> workers[w].txn, state |-> "Active",
                                 start_time |-> clock, operations |-> <<>>]}]
    /\ txn_history' = [begun |-> Append(txn_history.begun, workers[w].txn),
                       last |-> Returned(w, "begin", workers[w].txn, Ok(workers[w].txn))]
    /\ workers' = [workers EXCEPT ![w] = IdleWorker]
    /\ UNCHANGED <<walVars, storeVars, cmdVars, concVars, srvVars>>

\* a thread calls commit_transaction(t) or rollback_transaction(t)
EndCall(w, op, t) ==
    /\ CanStart(w)
    /\ workers' = [workers EXCEPT ![w] =
                      [IdleWorker EXCEPT !.pc = "check", !.op = op, !.txn = t]]
    /\ UNCHANGED <<walVars, storeVars, cmdVars, concVars, srvVars, manager, txn_history>>

\* what a thread does when its commit_transaction or rollback_transaction
\* returns ret: the caller gets ret, the sweeper goes on with its next id and
\* returns the ids it found when there is none left
AfterEnd(w, ret) ==
    LET wk == workers[w]
    IN IF ~wk.sweeping
       THEN /\ workers' = [workers EXCEPT ![w] = IdleWorker]
            /\ txn_history' = [txn_history EXCEPT
                                  !.last = Returned(w, wk.op, wk.txn, ret)]
       ELSE IF Len(wk.todo) > 1
       THEN /\ workers' = [workers EXCEPT ![w].pc = "check",
                                          ![w].todo = Tail(wk.todo),
                                          ![w].txn = wk.todo[2]]
            /\ UNCHANGED txn_history
       ELSE /\ workers' = [workers EXCEPT ![w] = IdleWorker]
            /\ txn_history' = [txn_history EXCEPT
                                  !.last = Returned(w, "sweep", 0, Ok(wk.timed_out))]

\* commit_transaction / rollback_transaction, first scope: contains_key
EndCheck(w) ==
    /\ workers[w].pc = "check"
    /\ IF workers[w].txn \in ActiveIds(manager)
       THEN /\ workers' = [workers EXCEPT ![w].pc = "wal_end"]
            /\ UNCHANGED txn_history
       ELSE AfterEnd(w, Err("transaction not found"))
    /\ UNCHANGED <<walVars, storeVars, cmdVars, concVars, srvVars, manager>>

\* WriteAheadLog::commit / rollback without the test of the active list
wal_terminate_unchecked(st, txn_id, command) ==
    [st |-> append_entry(st, LogEntry_new(command, None, None, txn_id), 1),
     ret |-> Ok(TRUE)]

\* WriteAheadLog::commit / rollback
wal_terminate(st, txn_id, command) ==
    IF ~vec_contains(st.wal.active_transactions, txn_id)
    THEN [st |-> st, ret |-> Err("transaction not found")]
    ELSE [st |-> append_entry(st, LogEntry_new(command, None, None, txn_id), 1),
          ret |-> Ok(TRUE)]

TerminalCommand(op) == IF op = "commit" THEN "COMMIT" ELSE "ROLLBACK"

\* second scope: wal.commit(txn_id)? / wal.rollback(txn_id)?
EndLog(w) ==
    LET r == wal_terminate(CurrentWal, workers[w].txn, TerminalCommand(workers[w].op))
    IN /\ workers[w].pc = "wal_end"
       /\ InstallWal(r.st)
       /\ IF is_ok(r.ret)
          THEN /\ workers' = [workers EXCEPT ![w].pc = "mark", ![w].appended = @ + 1]
               /\ UNCHANGED txn_history
          ELSE AfterEnd(w, r.ret)
       /\ UNCHANGED <<recovered, storeVars, cmdVars, concVars, srvVars, manager>>

\* third scope: Transaction::commit / rollback on the entry of the table
EndMark(w) ==
    /\ workers[w].pc = "mark"
    /\ manager' = [manager EXCEPT !.active_transactions =
                      {IF t.id = workers[w].txn
                       THEN [t EXCEPT !.state = IF workers[w].op = "commit"
                                                THEN "Committed" ELSE "RolledBack"]
                       ELSE t : t \in @}]
    /\ workers' = [workers EXCEPT ![w].pc = "remove"]
    /\ UNCHANGED <<walVars, storeVars, cmdVars, concVars, srvVars, txn_history>>

\* fourth scope: active_transactions.write() and the removal.  A thread that
\* holds the read guard of check_transaction_timeouts asks for the write
\* lock of the RwLock it has read-locked: it blocks for ever or panics.
EndRemove(w) ==
    /\ workers[w].pc = "remove"
    /\ IF workers[w].sweeping
       THEN /\ \/ workers' = [workers EXCEPT ![w].pc = "deadlocked"]
               \/ workers' = [workers EXCEPT ![w].pc = "panicked",
                                             ![w].sweeping = FALSE]
            /\ UNCHANGED <<manager, txn_history>>
       ELSE /\ ~ReadGuardHeld
            /\ manager' = [manager EXCEPT !.active_transactions =
                              {t \in @ : t.id # workers[w].txn}]
            /\ AfterEnd(w, Ok(TRUE))
    /\ UNCHANGED <<walVars, storeVars, cmdVars, concVars, srvVars>>

\* the orders in which the iteration over the HashMap can yield a set of ids
id_orders(ids) ==
    {q \in [1..Cardinality(ids) -> ids] :
        \A i, j \in 1..Cardinality(ids) : i # j => q[i] # q[j]}

\* check_transaction_timeouts: the scan of the active table under the read
\* guard; with nothing timed out it returns at once
SweepScan(w, timeout) ==
    LET late == {t.id : t \in {u \in manager.active_transactions :
                                  /\ u.state = "Active"
                                  /\ clock - u.start_time > timeout}}
    IN /\ CanStart(w)
       /\ IF late = {}
          THEN /\ workers' = [workers EXCEPT ![w] = IdleWorker]
               /\ txn_history' = [txn_history EXCEPT
                                     !.last = Returned(w, "sweep", 0, Ok(<<>>))]
          ELSE /\ \E q \in id_orders(late) :
                     workers' = [workers EXCEPT ![w] =
                        [IdleWorker EXCEPT !.pc = "check", !.op = "sweep",
                                           !.timeout = timeout, !.sweeping = TRUE,
                                           !.todo = q, !.timed_out = q,
                                           !.txn = q[1]]]
               /\ UNCHANGED txn_history
       /\ UNCHANGED <<walVars, storeVars, cmdVars, concVars, srvVars, manager>>

\* the begin command of a connection: TransactionCommandHandler::new builds
\* a TransactionManager from the log file as it is now
ConnOpen(w) ==
    /\ CanStart(w)
    /\ workers' = [workers EXCEPT ![w] =
                      [IdleWorker EXCEPT
                          !.pc = "conn_begin", !.op = "cmd_begin",
                          !.next_id = TransactionManager_new(wal_file, ckpt_files,
                                                             clock).next_txn_id]]
    /\ UNCHANGED <<walVars, storeVars, cmdVars, concVars, srvVars, manager, txn_history>>

\* ... and begin_transaction on it: the Begin entry goes to the shared file
\* through the WriteAheadLog instance of that manager
ConnBegin(w) ==
    LET txn_id == workers[w].next_id + 1
        own == WalState(wal_file, ckpt_files,
                        WriteAheadLog_new(wal_file, DefaultCheckpointInterval), TRUE)
    IN /\ workers[w].pc = "conn_begin"
       /\ wal_file' = append_entry(own, LogEntry_new("BEGIN", None, None, txn_id), 1).file
       /\ txn_history' = [begun |-> Append(txn_history.begun, txn_id),
                          last |-> [Returned(w, "cmd_begin", txn_id, Ok(txn_id))
                                       EXCEPT !.appended = 1]]
       /\ workers' = [workers EXCEPT ![w] = IdleWorker]
       /\ UNCHANGED <<ckpt_files, wal, wal_alive, recovered, storeVars, cmdVars,
                      concVars, srvVars, manager>>

\* the clock of the threads
TxnTick == clock < MaxTxnTime /\ Tick

TxnInit ==
    /\ WalIdle
    /\ StoreIdle
    /\ CmdIdle
    /\ ConcIdle
    /\ TxnIdle
    /\ SrvIdle

TxnNext ==
    \/ TxnTick
    \/ \E w \in Workers : BeginAlloc(w)
    \/ \E w \in Workers : BeginLog(w)
    \/ \E w \in Workers : BeginInsert(w)
    \/ \E w \in Workers, op \in {"commit", "rollback"}, t \in BegunIds(wal_file) :
          EndCall(w, op, t)
    \/ \E w \in Workers : EndCheck(w)
    \/ \E w \in Workers : EndLog(w)
    \/ \E w \in Workers : EndMark(w)
    \/ \E w \in Workers : EndRemove(w)
    \/ \E w \in Workers, timeout \in TxnTimeouts : SweepScan(w, timeout)
    \/ \E w \in Workers : ConnOpen(w)
    \/ \E w \in Workers : ConnBegin(w)

SpecTxn == TxnInit /\ [][TxnNext]_vars

(***************************************************************************)
(* C5 -- Cold-offload transparency.  With the connections taking turns and *)
(* the background offload pass interleaved with them at will, a get k that *)
(* was issued after set k v had returned, with no write of k since, is     *)
(* answered v, whether or not k was offloaded in between.                  *)
(***************************************************************************)
C5_OffloadTransparency ==
    (history.returned.cmd = "get" /\ history.returned.expect # None)
        => history.returned.resp = history.returned.expect[1]

(***************************************************************************)
(* C6 -- Command atomicity.  When set k v2 has returned, no other write of *)
(* k overlapped it, every command the connections issued has returned      *)
(* (a get k that ran concurrently included) and the offload pass did not   *)
(* move k meanwhile, the stored value of k is v2.                          *)
(***************************************************************************)
StoredValue(k) == render_option(SM_get_string(store, disk_files, k, clock).ret)

C6_CommandAtomicity ==
    \A k \in ConcKeys :
        (/\ history.acked[k] # None
         /\ history.undisturbed[k]
         /\ \A c \in Clients : ~InFlight(c))
            => StoredValue(k) = history.acked[k][1]

(***************************************************************************)
(* C7 -- Residency exclusivity.  In every reachable state no key is both   *)
(* in the in-memory table (data) and in the disk-key marker set            *)
(* (disk_keys).                                                            *)
(***************************************************************************)
C7_ResidencyExclusive ==
    \A k \in Keys : ~(contains_key(store, k) /\ k \in store.disk_keys)

(***************************************************************************)
(* C8 -- Snapshot round trip.  After any sequence of commands (expire and  *)
(* offload passes included), when save_to_file has written the data file   *)
(* and a new StoreManager has loaded it, every read command (get, range,   *)
(* hget, smembers, ddl) answers on the new store as on the original one.   *)
(***************************************************************************)
C8_SnapshotRoundTrip ==
    (last_cmd.cmd = "load" /\ last_cmd.after_save /\ store2 # None)
        => \A k \in Keys :
              Observation(store2[1], disk_files, k, clock)
                  = Observation(store, disk_files, k, clock)

(***************************************************************************)
(* C9 -- TTL.  After set k v and expire k n at time t, with no later write *)
(* of k: a get k answers v while now < t+n and (nil) once now >= t+n, and  *)
(* a del k issued once now >= t+n answers 0, whether or not a sweep of the *)
(* expired keys has run in between.                                        *)
(***************************************************************************)
C9_TtlGetAndDel ==
    last_cmd.tracked # None =>
        /\ last_cmd.cmd = "get" =>
              last_cmd.resp = IF last_cmd.time < last_cmd.tracked[1].deadline
                              THEN last_cmd.tracked[1].value
                              ELSE "(nil)"
        /\ (last_cmd.cmd = "del" /\ last_cmd.time >= last_cmd.tracked[1].deadline)
              => last_cmd.resp = "0"

(***************************************************************************)
(* C10 -- An expired key is absent for writes.  When set, append, lpush,   *)
(* rpush, hset or sadd is applied to a key whose expiry time has passed    *)
(* and which has not been swept, the key is no longer expired afterwards   *)
(* and a read issued at once answers the newly written value alone.        *)
(***************************************************************************)
ReadsAfterWrite(k) == Observation(store', disk_files', k, clock')

C10_WriteOnExpiredKey ==
    [][\A k \in SeqKeys, v \in Values :
          is_expired(store, k, clock) =>
              /\ CmdSet(k, v) => (~is_expired(store', k, clock')
                                   /\ ReadsAfterWrite(k).get = v)
              /\ SeqAppend(k, v) => (~is_expired(store', k, clock')
                                      /\ ReadsAfterWrite(k).get = v)
              /\ CmdLPush(k, v) => (~is_expired(store', k, clock')
                                     /\ ReadsAfterWrite(k).range = v)
              /\ CmdRPush(k, v) => (~is_expired(store', k, clock')
                                     /\ ReadsAfterWrite(k).range = v)
              /\ (\A f \in Fields :
                    CmdHSet(k, f, v) => (~is_expired(store', k, clock')
                                          /\ ReadsAfterWrite(k).hget[f] = v))
              /\ CmdSAdd(k, <<v>>) => (~is_expired(store', k, clock')
                                    /\ ReadsAfterWrite(k).smembers = Ok({v}))
      ]_vars

(***************************************************************************)
(* C11 -- A Set(k, v) executed by execute_command is answered with the     *)
(* body OK, and the get k issued next is answered v.                       *)
(***************************************************************************)
C11_SetAnswersOK ==
    [][\A k \in CmdKeys, v \in Values :
          CmdSet(k, v) =>
              /\ last_cmd'.resp = "OK"
              /\ Observation(store', disk_files', k, clock').get = v
      ]_vars

(***************************************************************************)
(* C12 -- A Set(k, v) whose value ends with " EX n" stores the part of v   *)
(* before " EX " as the value of k and records the expiry now + n, so the  *)
(* get k issued next is answered with that prefix.                         *)
(***************************************************************************)
C12_SetWithExStoresPrefix ==
    [][\A k \in SeqKeys, v \in Values, n \in ExpirySeconds :
          SeqSetEx(k, v, n) =>
              /\ store'.data[k] = Some(DString(v))
              /\ store'.expire_times[k] = Some(clock + n)
              /\ Observation(store', disk_files', k, clock').get = v
      ]_vars

(***************************************************************************)
(* C13 -- With default expiry enabled, a write (set, append, lpush, rpush, *)
(* hset, sadd) to a key that is present, not expired and has an expiry     *)
(* entry leaves that expiry entry as it was.                               *)
(***************************************************************************)
WritesKey(k) ==
    \/ \E v \in Values : CmdSet(k, v)
    \/ \E v \in Values : SeqAppend(k, v)
    \/ \E v \in Values : CmdLPush(k, v)
    \/ \E v \in Values : CmdRPush(k, v)
    \/ \E f \in Fields, v \in Values : CmdHSet(k, f, v)
    \/ \E v \in Values : CmdSAdd(k, <<v>>)

C13_DefaultExpiryOnlyOnFreshWrite ==
    [][\A k \in SeqKeys :
          (/\ settings.enable_default_expiry
           /\ contains_key(store, k)
           /\ store.expire_times[k] # None
           /\ ~is_expired(store, k, clock)
           /\ WritesKey(k))
              => store'.expire_times[k] = store.expire_times[k]
      ]_vars

(***************************************************************************)
(* C14 -- At most one terminal event per transaction.  Under any           *)
(* interleaving of commit_transaction and rollback_transaction calls the   *)
(* log holds at most one Commit or Rollback entry for a transaction; a     *)
(* call that returns Ok has appended exactly one such entry and has        *)
(* removed the transaction from the active table; every other call returns *)
(* TransactionNotFound and has appended nothing.                           *)
(***************************************************************************)
TerminalCount(file, id) ==
    Cardinality({i \in 1..Len(file) :
                    /\ deserialize(file[i]).command \in {"COMMIT", "ROLLBACK"}
                    /\ deserialize(file[i]).id = id})

C14_OneTerminalEvent ==
    /\ \A id \in BegunIds(wal_file) : TerminalCount(wal_file, id) <= 1
    /\ txn_history.last.op \in {"commit", "rollback"} =>
          IF is_ok(txn_history.last.ret)
          THEN /\ txn_history.last.appended = 1
               /\ TerminalCount(wal_file, txn_history.last.txn) = 1
               /\ txn_history.last.txn \notin ActiveIds(manager)
          ELSE /\ txn_history.last.appended = 0
               /\ txn_history.last.ret = Err("transaction not found")

\* a rollback of a transaction that has its terminal entry was turned down
C14_Witness ==
    /\ txn_history.last.op = "rollback"
    /\ ~is_ok(txn_history.last.ret)
    /\ TerminalCount(wal_file, txn_history.last.txn) = 1

(***************************************************************************)
(* C15 -- Transaction ids are unique and increasing.  Every id returned by *)
(* a begin is greater than every id returned before it, and no two Begin   *)
(* entries of the log carry the same id, also when the begins run          *)
(* concurrently on one manager or on different connections.                *)
(***************************************************************************)
C15_UniqueIncreasingIds ==
    /\ \A i, j \in 1..Len(txn_history.begun) :
          i < j => txn_history.begun[i] < txn_history.begun[j]
    /\ \A i, j \in 1..Len(wal_file) :
          (/\ i < j
           /\ deserialize(wal_file[i]).command = "BEGIN"
           /\ deserialize(wal_file[j]).command = "BEGIN")
              => deserialize(wal_file[i]).id # deserialize(wal_file[j]).id

(***************************************************************************)
(* C16 -- The timeout sweeper terminates.  check_transaction_timeouts      *)
(* never ends up blocked or panicking, and when it has returned, every id  *)
(* it returned has a Rollback entry in the log and is no longer in the     *)
(* active table.                                                           *)
(***************************************************************************)
HasRollbackEntry(file, id) ==
    \E i \in 1..Len(file) : /\ deserialize(file[i]).command = "ROLLBACK"
                            /\ deserialize(file[i]).id = id

C16_SweeperReturns ==
    /\ \A w \in Workers : workers[w].pc \notin {"deadlocked", "panicked"}
    /\ txn_history.last.op = "sweep" =>
          \A i \in 1..Len(txn_history.last.ret[2]) :
              /\ HasRollbackEntry(wal_file, txn_history.last.ret[2][i])
              /\ txn_history.last.ret[2][i] \notin ActiveIds(manager)

(***************************************************************************)
(* C17 -- Compaction preserves recovery.  For every log content, with or   *)
(* without earlier checkpoints that carry data, recover() called after     *)
(* compact() returns the map recover() returned immediately before it.     *)
(***************************************************************************)
C17_CompactionPreservesRecovery ==
    [][(WalCompact /\ wal_alive') => recover(CurrentWal') = recover(CurrentWal)]_vars

(***************************************************************************)
(* C18 -- A checkpoint records the resident keys.  The checkpoint file     *)
(* written by the checkpoint command holds a <key>|<value> line for every  *)
(* key that is resident in memory when the command runs.                   *)
(***************************************************************************)
\* the lines of the checkpoint file named by the last entry of the log
NewestCheckpointLines ==
    LET e == deserialize(wal_file[Len(wal_file)])
    IN (CHOOSE c \in ckpt_files : c.path = e.key[1]).lines

C18_CheckpointRecordsResidentKeys ==
    (last_cmd.cmd = "checkpoint" /\ last_cmd.ok) =>
        \A k \in Keys :
            store.data[k] # None => \E line \in NewestCheckpointLines : line[1] = k

(***************************************************************************)
(* C19 -- flushdb terminates.  The flushdb command returns a status and    *)
(* releases the store lock: no connection thread ends up blocked on the    *)
(* Store mutex or panicking inside the command.                            *)
(***************************************************************************)
C19_FlushDBReturns ==
    \A c \in Clients :
        clients[c].cmd = "flushdb" => clients[c].pc \notin {"deadlocked", "panicked"}

(***************************************************************************)
(* C20 -- A disk-resident key is present for del, expire and ddl.  When    *)
(* the key is cold (its value is in its offload file, not in memory) and   *)
(* not expired, del answers 1 and leaves nothing of the key, expire        *)
(* answers 1 and records the expiry, and ddl reports the TTL or no         *)
(* expiration, never 'Key does not exist'.                                 *)
(***************************************************************************)
ColdKey(k) ==
    /\ k \in store.disk_keys
    /\ store.data[k] = None
    /\ disk_files[k] # None
    /\ ~is_expired(store, k, clock)

C20_ColdKeyIsPresent ==
    [][\A k \in SeqKeys :
          ColdKey(k) =>
             /\ CmdDel(k) =>
                   /\ last_cmd'.resp = "1"
                   /\ store'.data[k] = None /\ store'.metadata[k] = None
                   /\ store'.expire_times[k] = None
                   /\ k \notin store'.disk_keys /\ disk_files'[k] = None
             /\ \A n \in ExpirySeconds :
                   SeqExpire(k, n) =>
                      /\ last_cmd'.resp = "1"
                      /\ store'.expire_times[k] = Some(clock + n)
             /\ SeqDDL(k) => last_cmd'.resp # "Key does not exist"
      ]_vars

(***************************************************************************)
(* C21 -- get on a non-string key is a type error.  When the key holds a   *)
(* list, a hash or a set (and is not expired), get answers with an ERROR   *)
(* response for the TypeMismatch, not with (nil).                          *)
(***************************************************************************)
HoldsOther(s, k, type, now) ==
    /\ s.data[k] # None
    /\ s.data[k][1].type # type
    /\ ~is_expired(s, k, now)

C21_GetOnNonStringIsTypeMismatch ==
    [][\A k \in CmdKeys :
          (HoldsOther(store, k, "string", clock) /\ CmdGet(k)) =>
              /\ ~last_cmd'.ok
              /\ last_cmd'.resp = error_text(TypeMismatch)
      ]_vars

(***************************************************************************)
(* C22 -- Type safety of the non-coercing operations.  hget, hdel, lpop,   *)
(* rpop, len, range, smembers, sismember and srem on a key that holds a    *)
(* different variant answer with the TypeMismatch error and leave the      *)
(* key's value, its variant and its expiry entry as they were.             *)
(***************************************************************************)
HashCommand(k) ==
    \/ \E f \in Fields : CmdHGet(k, f)
    \/ \E f \in Fields : CmdHDel(k, f)

ListCommand(k) == CmdLPop(k) \/ CmdRPop(k) \/ CmdLen(k) \/ CmdRange(k, 0, -1)

SetCommand(k) ==
    \/ CmdSMembers(k)
    \/ \E v \in TypeValues : CmdSIsMember(k, v)
    \/ \E v \in TypeValues : CmdSRem(k, v)

C22_NonCoercingTypeSafety ==
    [][\A k \in SeqKeys :
          (\/ HoldsOther(store, k, "hash", clock) /\ HashCommand(k)
           \/ HoldsOther(store, k, "list", clock) /\ ListCommand(k)
           \/ HoldsOther(store, k, "set", clock) /\ SetCommand(k))
              => /\ ~last_cmd'.ok
                 /\ last_cmd'.resp = error_text(TypeMismatch)
                 /\ store'.data[k] = store.data[k]
                 /\ store'.expire_times[k] = store.expire_times[k]
      ]_vars

\* lpop was turned down on a key of another variant that carries an expiry
C22_Witness ==
    /\ last_cmd.cmd = "lpop"
    /\ ~last_cmd.ok
    /\ HoldsOther(store, last_cmd.key, "list", clock)
    /\ store.expire_times[last_cmd.key] # None

(***************************************************************************)
(* C23 -- Type coercion.  lpush, rpush, hset and sadd on a key that holds  *)
(* a different variant never fail: the key's value becomes a fresh         *)
(* container of the target type that holds exactly the element(s) of the   *)
(* call; lpush and rpush answer length 1 and hset answers true.            *)
(***************************************************************************)
C23_CoercingWritesReplace ==
    [][\A k \in SeqKeys :
          /\ \A v \in TypeValues :
                (HoldsOther(store, k, "list", clock) /\ (CmdLPush(k, v) \/ CmdRPush(k, v)))
                   => /\ last_cmd'.ok
                      /\ last_cmd'.resp = "1"
                      /\ store'.data[k] = Some(DList(<<v>>))
          /\ \A f \in Fields :
                (HoldsOther(store, k, "hash", clock) /\ CmdHSet(k, f, "a"))
                   => /\ last_cmd'.ok
                      /\ last_cmd'.resp = "1"
                      /\ store'.data[k] = Some(DHash({<<f, "a">>}))
          /\ \A members \in TypeMembers :
                (HoldsOther(store, k, "set", clock) /\ CmdSAdd(k, members))
                   => /\ last_cmd'.ok
                      /\ store'.data[k] = Some(DSet(vec_to_set(members)))
      ]_vars

\* lpush has replaced a string that was given an expiry and had not expired
C23_Witness ==
    /\ last_cmd.cmd = "lpush"
    /\ last_cmd.tracked # None
    /\ ~last_cmd.was_expired
    /\ last_cmd.resp = "1"
    /\ store.data[last_cmd.key] # None
    /\ store.data[last_cmd.key][1].type = "list"

(***************************************************************************)
(* C24 -- sadd counts the new members.  The count sadd answers is the      *)
(* number by which the cardinality of the set grows, for every argument    *)
(* list (also one that repeats a member), whether the key held a set, was  *)
(* absent or held another variant.                                         *)
(***************************************************************************)
\* the cardinality of the set a key holds; 0 when it holds no (live) set
SetSize(s, k, now) ==
    IF s.data[k] # None /\ s.data[k][1].type = "set" /\ ~is_expired(s, k, now)
    THEN Cardinality(s.data[k][1].m) ELSE 0

C24_SAddCountsNewMembers ==
    [][\A k \in SeqKeys, members \in TypeMembers :
          CmdSAdd(k, members) =>
              last_cmd'.resp = ToString(SetSize(store', k, clock') - SetSize(store, k, clock))
      ]_vars

(***************************************************************************)
(* C25 -- range returns the normalised slice.  For a list of length L and  *)
(* all integers start and end, range answers the elements [s, e) with      *)
(* s = (start < 0 ? max(0, L+start) : min(start, L)) and                   *)
(* e = (end < 0 ? max(0, L+end+1) : min(end+1, L)), and the empty list     *)
(* when s >= e, when the list is empty and when the key is absent.         *)
(***************************************************************************)
\* the list a key holds; empty when the key is absent or expired
HeldList(s, k, now) ==
    IF s.data[k] # None /\ ~is_expired(s, k, now) THEN s.data[k][1].l ELSE <<>>

NormalisedSlice(list, start, end) ==
    LET L  == Len(list)
        s0 == IF start < 0 THEN imax(0, L + start) ELSE imin(start, L)
        e0 == IF end < 0 THEN imax(0, L + end + 1) ELSE imin(end + 1, L)
    IN IF s0 >= e0 THEN <<>> ELSE SubSeq(list, s0 + 1, e0)

C25_RangeReturnsNormalisedSlice ==
    [][\A k \in SeqKeys, start \in Isize, end \in Isize :
          (/\ store.data[k] # None => store.data[k][1].type = "list"
           /\ CmdRange(k, start, end) \/ CmdRangeOverflow(k, start, end))
              => last_cmd'.resp =
                    render_list(Ok(NormalisedSlice(HeldList(store, k, clock), start, end)))
      ]_vars

(***************************************************************************)
(* C26 -- Malformed requests are rejected.  A request line with an unknown *)
(* verb, a wrong number of arguments or a non-integer where an integer is  *)
(* required is answered with "ERROR: <msg>" and changes nothing in the     *)
(* store, the expiry index or the log; and only the verb is case-folded:   *)
(* the value of a set reaches the store with its casing.                   *)
(***************************************************************************)
\* the request lines the claim calls malformed, by the arity of each verb (a
\* set takes the rest of the line as its value; begin takes no argument)
Malformed(parts) ==
    LET n == Len(parts)
        verb == to_lowercase(parts[1])
    IN \/ verb \notin {"set", "get", "expire", "begin"}
       \/ verb = "get" /\ n # 2
       \/ verb = "expire" /\ (n # 3 \/ parse_int(parts[3]) = None)
       \/ verb = "begin" /\ n # 1
       \/ verb = "set" /\ n < 3

C26_MalformedRequestsAreRejected ==
    [][\A parts \in RequestLines :
          Request(parts) =>
             /\ Malformed(parts) =>
                   /\ last_cmd'.cmd = "invalid"
                   /\ store' = store
                   /\ wal_file' = wal_file
             /\ (~Malformed(parts) /\ to_lowercase(parts[1]) = "set" /\ Len(parts) = 3) =>
                   store'.data[parts[2]] = Some(DString(parts[3]))
      ]_vars

(***************************************************************************)
(* Specification SpecFrame: the single-key commands on two keys, with the  *)
(* memory manager moving cold keys to disk between commands.               *)
(***************************************************************************)
FrameKeys == {"k1"}
FrameOtherKeys == Keys \ FrameKeys

FrameNext ==
    \/ \E k \in Keys : CmdSet(k, "a")
    \/ \E k \in FrameKeys : CmdGet(k)
    \/ \E k \in FrameKeys : CmdDel(k)
    \/ \E k \in FrameKeys : CmdLPush(k, "a")
    \/ \E k \in FrameKeys : CmdRPush(k, "a")
    \/ \E k \in FrameKeys : CmdLPop(k)
    \/ \E k \in FrameKeys : CmdRPop(k)
    \/ \E k \in FrameKeys : CmdLDel(k)
    \/ \E k \in FrameKeys, f \in Fields : CmdHSet(k, f, "a")
    \/ \E k \in FrameKeys, f \in Fields : CmdHGet(k, f)
    \/ \E k \in FrameKeys, f \in Fields : CmdHDel(k, f)
    \/ \E k \in FrameKeys : CmdSAdd(k, <<"a">>)
    \/ \E k \in FrameKeys : CmdSRem(k, "a")
    \/ \E k \in Keys : SeqExpire(k, 1)
    \/ \E k \in FrameKeys : SeqDDL(k)
    \/ SeqOffloadPass

FrameInit ==
    /\ WalIdle
    /\ store = Store_new
    /\ disk_files = NoFiles
    /\ snapshot_file = None
    /\ store2 = None
    /\ clock = 0
    /\ settings = DefaultSettings
    /\ memory_manager = Some(SmallMemoryManager)
    /\ CmdIdle
    /\ ConcIdle
    /\ TxnIdle
    /\ SrvIdle

SpecFrame == FrameInit /\ [][FrameNext]_vars

(***************************************************************************)
(* C27 -- Frame.  A single-key command on a key (set, get, del, lpush,     *)
(* rpush, lpop, rpop, ldel, hset, hget, hdel, sadd, srem, expire, ddl)     *)
(* leaves the value, the metadata, the expiry entry and the disk marker of *)
(* every other key as they were before the command.                        *)
(***************************************************************************)
SingleKeyCommands ==
    {"set", "get", "del", "lpush", "rpush", "lpop", "rpop", "ldel",
     "hset", "hget", "hdel", "sadd", "srem", "expire", "ddl"}

\* some single-key command on key k takes this step
SingleKeyStep(k) ==
    \/ CmdSet(k, "a") \/ CmdGet(k) \/ CmdDel(k)
    \/ CmdLPush(k, "a") \/ CmdRPush(k, "a") \/ CmdLPop(k) \/ CmdRPop(k) \/ CmdLDel(k)
    \/ \E f \in Fields : CmdHSet(k, f, "a") \/ CmdHGet(k, f) \/ CmdHDel(k, f)
    \/ CmdSAdd(k, <<"a">>) \/ CmdSRem(k, "a")
    \/ SeqExpire(k, 1) \/ SeqDDL(k)

C27_SingleKeyCommandFrame ==
    [][\A k1 \in FrameKeys :
          SingleKeyStep(k1) =>
             \A k2 \in Keys \ {k1} :
                /\ store'.data[k2] = store.data[k2]
                /\ store'.metadata[k2] = store.metadata[k2]
                /\ store'.expire_times[k2] = store.expire_times[k2]
                /\ (k2 \in store'.disk_keys) = (k2 \in store.disk_keys)
      ]_vars

\* a key was just deleted while the other key stays on disk with a deadline
C27_Witness ==
    /\ last_cmd.cmd = "del"
    /\ last_cmd.ok
    /\ \E k2 \in Keys \ {last_cmd.key} :
          /\ k2 \in store.disk_keys
          /\ store.expire_times[k2] # None
          /\ store.metadata[k2] # None

(***************************************************************************)
(* Server::start and Server::handle_client (kv-server/src/server.rs):      *)
(* the accept loop, the termination signal, the save after the loop and    *)
(* one detached connection thread (specification SpecServer).  The         *)
(* connection sends `set <key> a`.                                         *)
(***************************************************************************)
\* Server::start up to the accept loop, on an empty WAL directory:
\* load_from_file, bind, running.store(true), ctrlc::set_handler
ServerStart ==
    /\ server.pc = "new"
    /\ store' = load_from_file(store, snapshot_file, clock)
    /\ server' = [server EXCEPT !.running = TRUE, !.pc = "accept"]
    /\ store2' = None
    /\ UNCHANGED <<walVars, disk_files, snapshot_file, clock, settings,
                   memory_manager, cmdVars, concVars, txnVars>>

\* the ctrlc handler: running.store(false)
ServerSignal ==
    /\ server.pc # "new"
    /\ server.running
    /\ server' = [server EXCEPT !.running = FALSE]
    /\ UNCHANGED <<walVars, storeVars, cmdVars, concVars, txnVars>>

\* the accept loop with running set: listener.accept() returns a stream and
\* a detached thread is spawned for it
ServerAccept ==
    /\ server.pc = "accept"
    /\ server.running
    /\ server.conn = "none"
    /\ server' = [server EXCEPT !.conn = "idle"]
    /\ UNCHANGED <<walVars, storeVars, cmdVars, concVars, txnVars>>

\* the accept loop reads running = false and ends
ServerLeaveLoop ==
    /\ server.pc = "accept"
    /\ ~server.running
    /\ server' = [server EXCEPT !.pc = "save"]
    /\ UNCHANGED <<walVars, storeVars, cmdVars, concVars, txnVars>>

\* after the loop: store_manager.save_to_file(&self.data_file)
ServerSave ==
    /\ server.pc = "save"
    /\ \E keys \in offload_candidates(store, memory_manager, clock) :
          LET r == save_to_file(store, disk_files, clock, settings, keys)
          IN /\ store' = r.store
             /\ disk_files' = r.files
             /\ snapshot_file' = r.written
    /\ server' = [server EXCEPT !.pc = "return"]
    /\ store2' = None
    /\ UNCHANGED <<walVars, clock, settings, memory_manager, cmdVars, concVars, txnVars>>

\* start() returns Ok(()) and main returns: the process and its detached
\* threads end
ServerReturn ==
    /\ server.pc = "return"
    /\ server' = [server EXCEPT !.pc = "stopped"]
    /\ UNCHANGED <<walVars, storeVars, cmdVars, concVars, txnVars>>

\* handle_client: stream.read returns a line, parse_command and
\* execute_command run `set key a`
ClientExecute(key) ==
    /\ server.pc # "stopped"
    /\ server.conn = "idle"
    /\ LET r == SM_set_string(store, disk_files, key, "a", clock, settings)
       IN /\ BoundedStore(r.store)
          /\ store' = r.store
          /\ disk_files' = r.files
    /\ server' = [server EXCEPT !.conn = "executed", !.pending = Some(key)]
    /\ store2' = None
    /\ UNCHANGED <<walVars, snapshot_file, clock, settings, memory_manager,
                   cmdVars, concVars, txnVars>>

\* handle_client: stream.write_all of the response; the client has its answer
ClientRespond ==
    /\ server.pc # "stopped"
    /\ server.conn = "executed"
    /\ server' = [server EXCEPT !.conn = "idle", !.pending = None,
                                !.acked = @ \cup {server.pending[1]}]
    /\ UNCHANGED <<walVars, storeVars, cmdVars, concVars, txnVars>>

\* handle_client: stream.read returns Ok(0), the peer has closed
ClientDisconnect ==
    /\ server.pc # "stopped"
    /\ server.conn = "idle"
    /\ server' = [server EXCEPT !.conn = "none"]
    /\ UNCHANGED <<walVars, storeVars, cmdVars, concVars, txnVars>>

ServerNext ==
    \/ ServerStart
    \/ ServerSignal
    \/ ServerAccept
    \/ ServerLeaveLoop
    \/ ServerSave
    \/ ServerReturn
    \/ \E k \in Keys : ClientExecute(k)
    \/ ClientRespond
    \/ ClientDisconnect

SpecServer == CmdInit /\ [][ServerNext]_vars

(***************************************************************************)
(* C28 -- Graceful shutdown.  Once the server has stopped after the        *)
(* termination signal, the snapshot written by save_to_file contains the   *)
(* effect of every command that was acknowledged to a client before the    *)
(* server stopped.                                                         *)
(***************************************************************************)
C28_SnapshotHoldsAcknowledgedCommands ==
    server.pc = "stopped" =>
        /\ snapshot_file # None
        /\ \A k \in server.acked :
              <<k, to_json(DString("a"))>> \in snapshot_file[1].data

(***************************************************************************)
(* TransactionManager::execute_operation_with_old_value, scope by scope,   *)
(* next to begin_transaction and commit_transaction (specification         *)
(* SpecTxnOps).  The operations are Set("k1", "a") and Delete("k1"); the   *)
(* operation count stays below checkpoint_threshold.                       *)
(***************************************************************************)
TxnOperations == {"set", "delete"}

\* the log entry execute_operation_with_old_value builds for an operation
operation_entry(op, txn_id) ==
    IF op = "set" THEN LogEntry_new("PUT", Some("k1"), Some("a"), txn_id)
    ELSE LogEntry_new("DELETE", Some("k1"), None, txn_id)

\* a thread calls execute_operation_with_old_value(t, op, None, None)
OpCall(w, op, t) ==
    /\ CanStart(w)
    /\ workers' = [workers EXCEPT ![w] =
                      [IdleWorker EXCEPT !.pc = "op_lookup", !.op = op, !.txn = t]]
    /\ UNCHANGED <<walVars, storeVars, cmdVars, concVars, srvVars, manager, txn_history>>

\* first scope: the transaction is looked up in the active table and its Arc
\* is cloned
OpLookup(w) ==
    /\ workers[w].pc = "op_lookup"
    /\ IF workers[w].txn \in ActiveIds(manager)
       THEN /\ workers' = [workers EXCEPT ![w].pc = "op_add"]
            /\ UNCHANGED txn_history
       ELSE /\ workers' = [workers EXCEPT ![w] = IdleWorker]
            /\ txn_history' = [txn_history EXCEPT !.last =
                  Returned(w, workers[w].op, workers[w].txn, Err("transaction not found"))]
    /\ UNCHANGED <<walVars, storeVars, cmdVars, concVars, srvVars, manager>>

\* the second scope without the test of the state
OpAdd_any_state(w) ==
    /\ workers[w].pc = "op_add"
    /\ manager' = [manager EXCEPT !.active_transactions =
                      {IF t.id = workers[w].txn
                       THEN [t EXCEPT !.operations = Append(@, workers[w].op)]
                       ELSE t : t \in @}]
    /\ workers' = [workers EXCEPT ![w].pc = "op_log"]
    /\ UNCHANGED <<walVars, storeVars, cmdVars, concVars, srvVars, txn_history>>

\* second scope: under the transaction's mutex the state is tested and the
\* operation is pushed (a transaction already taken out of the table has
\* been marked Committed or RolledBack before)
OpAdd(w) ==
    /\ workers[w].pc = "op_add"
    /\ IF \E t \in manager.active_transactions :
             t.id = workers[w].txn /\ t.state = "Active"
       THEN /\ manager' = [manager EXCEPT !.active_transactions =
                              {IF t.id = workers[w].txn
                               THEN [t EXCEPT !.operations = Append(@, workers[w].op)]
                               ELSE t : t \in @}]
            /\ workers' = [workers EXCEPT ![w].pc = "op_log"]
            /\ UNCHANGED txn_history
       ELSE /\ workers' = [workers EXCEPT ![w] = IdleWorker]
            /\ txn_history' = [txn_history EXCEPT !.last =
                  Returned(w, workers[w].op, workers[w].txn, Err("invalid entry"))]
            /\ UNCHANGED manager
    /\ UNCHANGED <<walVars, storeVars, cmdVars, concVars, srvVars>>

\* TransactionManager::check_checkpoint_needed after the counter has been
\* incremented to count: an automatic checkpoint with an empty snapshot
check_checkpoint_needed(m, st, count) ==
    IF m.auto_checkpoint /\ count >= m.checkpoint_threshold /\ st.alive
    THEN create_checkpoint(st, Some(EmptyMap), 1)
    ELSE st

\* third scope: under the WAL mutex the entry of the operation is appended;
\* then the operation counter is incremented, check_checkpoint_needed runs
\* and Ok(()) is returned
OpLog(w) ==
    /\ workers[w].pc = "op_log"
    /\ InstallWal(check_checkpoint_needed(
                     manager,
                     append_entry(CurrentWal,
                                  operation_entry(workers[w].op, workers[w].txn), 1),
                     manager.operation_count + 1))
    /\ manager' = [manager EXCEPT !.operation_count = @ + 1]
    /\ txn_history' = [txn_history EXCEPT !.last =
          [Returned(w, workers[w].op, workers[w].txn, Ok(0))
              EXCEPT !.appended = workers[w].appended + 1]]
    /\ workers' = [workers EXCEPT ![w] = IdleWorker]
    /\ UNCHANGED <<recovered, storeVars, cmdVars, concVars, srvVars>>

\* a thread calls execute_operation(t, op) (add_operation_to_transaction)
AddCall(w, op, t) ==
    /\ CanStart(w)
    /\ workers' = [workers EXCEPT ![w] =
                      [IdleWorker EXCEPT !.pc = "add_lookup", !.op = op, !.txn = t]]
    /\ UNCHANGED <<walVars, storeVars, cmdVars, concVars, srvVars, manager, txn_history>>

\* execute_operation, first scope: the lookup in the active table
AddLookup(w) ==
    /\ workers[w].pc = "add_lookup"
    /\ IF workers[w].txn \in ActiveIds(manager)
       THEN /\ workers' = [workers EXCEPT ![w].pc = "add_add"]
            /\ UNCHANGED txn_history
       ELSE /\ workers' = [workers EXCEPT ![w] = IdleWorker]
            /\ txn_history' = [txn_history EXCEPT !.last =
                  Returned(w, workers[w].op, workers[w].txn, Err("transaction not found"))]
    /\ UNCHANGED <<walVars, storeVars, cmdVars, concVars, srvVars, manager>>

\* execute_operation, second scope: the state is tested, the operation is
\* pushed and Ok(()) is returned; nothing is written to the WAL
AddPush(w) ==
    /\ workers[w].pc = "add_add"
    /\ IF \E t \in manager.active_transactions :
             t.id = workers[w].txn /\ t.state = "Active"
       THEN /\ manager' = [manager EXCEPT !.active_transactions =
                              {IF t.id = workers[w].txn
                               THEN [t EXCEPT !.operations = Append(@, workers[w].op)]
                               ELSE t : t \in @}]
            /\ txn_history' = [txn_history EXCEPT !.last =
                  Returned(w, workers[w].op, workers[w].txn, Ok(0))]
       ELSE /\ txn_history' = [txn_history EXCEPT !.last =
                  Returned(w, workers[w].op, workers[w].txn, Err("invalid entry"))]
            /\ UNCHANGED manager
    /\ workers' = [workers EXCEPT ![w] = IdleWorker]
    /\ UNCHANGED <<walVars, storeVars, cmdVars, concVars, srvVars>>

\* the ids the threads pass: the id begin_transaction returns first and an
\* id no transaction has
OperationIds == {1, 2}

\* the operation lists stay within MaxTxnOperations, calls in progress counted
MaxTxnOperations == 2
OperationsRoom ==
    \A t \in manager.active_transactions :
        Len(t.operations)
           + Cardinality({w \in Workers : workers[w].pc \in
                            {"op_lookup", "op_add", "add_lookup", "add_add"}})
           < MaxTxnOperations

TxnOpsNext ==
    \/ \E w \in Workers : manager.next_txn_id = 1 /\ BeginAlloc(w)
    \/ \E w \in Workers : BeginLog(w)
    \/ \E w \in Workers : BeginInsert(w)
    \/ \E w \in Workers, op \in TxnOperations, t \in OperationIds :
          OperationsRoom /\ OpCall(w, op, t)
    \/ \E w \in Workers : OpLookup(w)
    \/ \E w \in Workers : OpAdd(w)
    \/ \E w \in Workers : OpLog(w)
    \/ \E w \in Workers, op \in TxnOperations, t \in OperationIds :
          OperationsRoom /\ AddCall(w, op, t)
    \/ \E w \in Workers : AddLookup(w)
    \/ \E w \in Workers : AddPush(w)
    \/ \E w \in Workers, op \in {"commit", "rollback"}, t \in ActiveIds(manager) :
          EndCall(w, op, t)
    \/ \E w \in Workers : EndCheck(w)
    \/ \E w \in Workers : EndLog(w)
    \/ \E w \in Workers : EndMark(w)
    \/ \E w \in Workers : EndRemove(w)

SpecTxnOps == TxnInit /\ [][TxnOpsNext]_vars

(***************************************************************************)
(* C29 -- Commit follows all op entries.  Under any interleaving of        *)
(* execute_operation_with_old_value(T, op) and commit_transaction(T),      *)
(* every Put/Delete entry of T precedes T's Commit entry in the log, and   *)
(* T's op entries appear in the log in the order in which the operations   *)
(* were added to T.operations.                                             *)
(***************************************************************************)
\* the operations of transaction txn_id that the log holds, in log order
RECURSIVE LoggedOperations(_, _)
LoggedOperations(file, txn_id) ==
    IF file = <<>> THEN <<>>
    ELSE LET e == deserialize(Head(file))
             rest == LoggedOperations(Tail(file), txn_id)
         IN IF e.id = txn_id /\ e.command = "PUT" THEN <<"set">> \o rest
            ELSE IF e.id = txn_id /\ e.command = "DELETE" THEN <<"delete">> \o rest
            ELSE rest

C29_CommitFollowsOperationEntries ==
    /\ \A i, j \in 1..Len(wal_file) :
          (/\ deserialize(wal_file[i]).command = "COMMIT"
           /\ deserialize(wal_file[j]).command \in {"PUT", "DELETE"}
           /\ deserialize(wal_file[j]).id = deserialize(wal_file[i]).id) => j < i
    /\ \A t \in manager.active_transactions :
          Len(LoggedOperations(wal_file, t.id)) = Len(t.operations)
             => LoggedOperations(wal_file, t.id) = t.operations

(***************************************************************************)
(* C30 -- Auto-checkpoint terminates.  append_entry returns for every      *)
(* entry; when the append makes entries_since_checkpoint reach             *)
(* checkpoint_interval it creates exactly one checkpoint (one checkpoint   *)
(* file and one Checkpoint entry after the appended entry) and leaves the  *)
(* counter at zero.                                                        *)
(***************************************************************************)
C30_AutoCheckpointTerminates ==
    [][\A id \in TxnIds, k \in WalKeys, v \in WalValues :
          WalPut(id, k, v) =>
             /\ wal_alive'
             /\ wal.entries_since_checkpoint + 1 >= wal.checkpoint_interval =>
                   /\ Len(wal_file') = Len(wal_file) + 2
                   /\ deserialize(wal_file'[Len(wal_file')]).command = "CHECKPOINT"
                   /\ Cardinality(ckpt_files') = Cardinality(ckpt_files) + 1
                   /\ wal'.entries_since_checkpoint = 0
      ]_vars

(***************************************************************************)
(* Specification SpecRecover: the entries of transactions, checkpoints     *)
(* without a snapshot, recover() and the reopening of the log.             *)
(***************************************************************************)
RecoverNext ==
    \/ \E id \in TxnIds : WalBegin(id)
    \/ \E id \in TxnIds, k \in WalKeys : WalPut(id, k, "a")
    \/ \E id \in TxnIds, k \in WalKeys : WalDelete(id, k)
    \/ \E id \in TxnIds : WalCommit(id)
    \/ \E id \in TxnIds : WalRollback(id)
    \/ WalCheckpoint(None)
    \/ WalRecover
    \/ WalReopen

SpecRecover == WalInit /\ [][RecoverNext]_vars

(***************************************************************************)
(* C31 -- Uncommitted work leaves no residue.  The map returned by         *)
(* recover() contains no effect of a Put or Delete entry of a transaction  *)
(* that has no Commit entry in the log: it is the map recover() returns    *)
(* for the same log with those entries emptied.                            *)
(***************************************************************************)
\* the ids that have a Commit entry in the log
CommittedIds(file) ==
    {deserialize(file[i]).id :
        i \in {j \in 1..Len(file) : deserialize(file[j]).command = "COMMIT"}}

\* the Put and Delete lines of transactions without a Commit entry
IsUncommittedOperation(file, line) ==
    /\ deserialize(line).command \in {"PUT", "DELETE"}
    /\ deserialize(line).id \notin CommittedIds(file)

\* the log with the key and the value of those entries blanked, every entry
\* at its place: recover() applies nothing for an entry without a key
WithoutUncommitted(file) ==
    [i \in 1..Len(file) |->
        IF IsUncommittedOperation(file, file[i])
        THEN serialize(LogEntry_new(deserialize(file[i]).command, None, None,
                                    deserialize(file[i]).id))
        ELSE file[i]]

IsActive(txn_id) ==
    \E t \in manager.active_transactions : t.id = txn_id /\ t.state = "Active"

\* thread w is at a test of its call that finds no Active transaction
FindsNotActive(w) ==
    \/ workers[w].pc \in {"op_lookup", "add_lookup"}
          /\ workers[w].txn \notin ActiveIds(manager)
    \/ workers[w].pc \in {"op_add", "add_add"} /\ ~IsActive(workers[w].txn)

C32_OnlyActiveTransactionsAcceptOperations ==
    [][\A w \in Workers :
          (FindsNotActive(w) /\ workers'[w] # workers[w]) =>
             /\ workers'[w].pc = "idle"
             /\ txn_history'.last.worker = w
             /\ ~is_ok(txn_history'.last.ret)
             /\ wal_file' = wal_file
             /\ manager' = manager
      ]_vars

\* a call on a transaction already marked Committed has just been refused
C32_Witness ==
    /\ txn_history.last.op \in TxnOperations
    /\ txn_history.last.ret = Err("invalid entry")
    /\ txn_history.last.txn \in CommittedIds(wal_file)

(***************************************************************************)
(* Specification SpecDeferred: one transaction whose operations are added  *)
(* through execute_operation only (the path of add_operation_to_transaction*)
(* and of the implicit transaction of TransactionCommandHandler::          *)
(* execute_operation), and its commit.                                     *)
(***************************************************************************)
\* one thread makes the calls one after the other
DeferredWorkers == {"w1"}

DeferredNext ==
    \/ \E w \in DeferredWorkers : manager.next_txn_id = 1 /\ BeginAlloc(w)
    \/ \E w \in DeferredWorkers : BeginLog(w)
    \/ \E w \in DeferredWorkers : BeginInsert(w)
    \/ \E w \in DeferredWorkers, op \in TxnOperations, t \in OperationIds :
          OperationsRoom /\ AddCall(w, op, t)
    \/ \E w \in DeferredWorkers : AddLookup(w)
    \/ \E w \in DeferredWorkers : AddPush(w)
    \/ \E w \in DeferredWorkers, t \in ActiveIds(manager) : EndCall(w, "commit", t)
    \/ \E w \in DeferredWorkers : EndCheck(w)
    \/ \E w \in DeferredWorkers : EndLog(w)
    \/ \E w \in DeferredWorkers : EndMark(w)
    \/ \E w \in DeferredWorkers : EndRemove(w)

SpecDeferred == TxnInit /\ [][DeferredNext]_vars

(***************************************************************************)
(* C33 -- Deferred op logging.  For a transaction whose operations were    *)
(* added through execute_operation, commit_transaction writes one Put or   *)
(* Delete entry per operation, in insertion order, before the Commit entry.*)
(***************************************************************************)
\* the lines of the log before the first Commit entry of txn_id
RECURSIVE BeforeCommit(_, _)
BeforeCommit(file, txn_id) ==
    IF file = <<>> THEN <<>>
    ELSE IF deserialize(Head(file)).command = "COMMIT" /\ deserialize(Head(file)).id = txn_id
         THEN <<>>
         ELSE <<Head(file)>> \o BeforeCommit(Tail(file), txn_id)

C33_CommitWritesDeferredOperations ==
    \A t \in manager.active_transactions :
        t.state = "Committed" =>
            LoggedOperations(BeforeCommit(wal_file, t.id), t.id) = t.operations

(***************************************************************************)
(* StoreTransactionExt for Store (store_transaction.rs): a transaction     *)
(* operation applied to the store and undone again (specification          *)
(* SpecUndo).  StoreOperation values are records; the Bool result of the   *)
(* two functions is the ret field.                                         *)
(***************************************************************************)
StoreOperation(kind, key, field, value) ==
    [kind |-> kind, key |-> key, field |-> field, value |-> value]

\* Store::set_string (the inherent method): no test of the expiry
Store_set_string_raw(s, key, value, now, cfg) ==
    apply_default_expiry(
        record_modification(
            [record_access(s, key, now) EXCEPT !.data[key] = Some(DString(value))],
            key, now),
        key, now, cfg)

\* StoreTransactionExt::apply_transaction_operation, the arms of Set, LPush,
\* RPush, LPop, RPop and HSet
apply_transaction_operation(s, op, now, cfg) ==
    CASE op.kind = "Set" ->
            Ret(Store_set_string_raw(s, op.key, op.value, now, cfg), TRUE)
      [] op.kind = "LPush" ->
            LET r == Store_lpush(s, op.key, op.value, now, cfg) IN Ret(r.store, is_ok(r.ret))
      [] op.kind = "RPush" ->
            LET r == Store_rpush(s, op.key, op.value, now, cfg) IN Ret(r.store, is_ok(r.ret))
      [] op.kind = "LPop" ->
            LET r == Store_lpop(s, op.key, now) IN Ret(r.store, is_ok(r.ret))
      [] op.kind = "RPop" ->
            LET r == Store_rpop(s, op.key, now) IN Ret(r.store, is_ok(r.ret))
      [] op.kind = "HSet" ->
            LET r == Store_hset(s, op.key, op.field, op.value, now, cfg)
            IN Ret(r.store, is_ok(r.ret))

\* StoreTransactionExt::rollback_transaction_operation
rollback_transaction_operation(s, op, now) ==
    CASE op.kind = "Set" ->
            LET r == Store_delete(s, op.key) IN Ret(r.store, r.ret = Ok(TRUE))
      [] op.kind = "LPush" ->
            LET r == Store_lpop(s, op.key, now) IN Ret(r.store, is_ok(r.ret))
      [] op.kind = "RPush" ->
            LET r == Store_rpop(s, op.key, now) IN Ret(r.store, is_ok(r.ret))
      [] OTHER -> Ret(s, FALSE)

UndoOperations ==
    {StoreOperation(kind, k, "", "b") : kind \in {"Set", "LPush", "RPush"}, k \in CmdKeys}
       \cup {StoreOperation(kind, k, "", "") : kind \in {"LPop", "RPop"}, k \in CmdKeys}
       \cup {StoreOperation("HSet", k, f, "b") : k \in CmdKeys, f \in Fields}

\* apply_transaction_operation(op) on the store
TxnApply(op) ==
    LET r == apply_transaction_operation(store, op, clock, settings)
    IN /\ BoundedStore(r.store)
       /\ store' = r.store
       /\ last_cmd' = Executed("apply", op.key, render_bool(Ok(r.ret)), r.ret)
       /\ expiring' = [expiring EXCEPT ![op.key] = None]
       /\ store2' = None
       /\ UNCHANGED <<walVars, disk_files, snapshot_file, clock, settings,
                      memory_manager, conn, concVars, txnVars, srvVars>>

\* apply_transaction_operation(op) followed by rollback_transaction_operation(op)
TxnApplyRollback(op) ==
    LET a == apply_transaction_operation(store, op, clock, settings)
        r == rollback_transaction_operation(a.store, op, clock)
    IN /\ BoundedStore(a.store)
       /\ store' = r.store
       /\ last_cmd' = Executed("undo", op.key, render_bool(Ok(r.ret)), r.ret)
       /\ expiring' = [expiring EXCEPT ![op.key] = None]
       /\ store2' = None
       /\ UNCHANGED <<walVars, disk_files, snapshot_file, clock, settings,
                      memory_manager, conn, concVars, txnVars, srvVars>>

UndoNext ==
    \/ clock < MaxTypeTime /\ Tick
    \/ \E k \in CmdKeys, v \in Values : CmdSet(k, v)
    \/ \E k \in CmdKeys : CmdDel(k)
    \/ \E op \in UndoOperations : TxnApply(op)
    \/ \E op \in UndoOperations : TxnApplyRollback(op)

SpecUndo == CmdInit /\ [][UndoNext]_vars

(***************************************************************************)
(* C34 -- Undo is the inverse of apply.  For every store state and every   *)
(* operation among Set, LPush, RPush, LPop, RPop and HSet,                 *)
(* apply_transaction_operation followed by rollback_transaction_operation  *)
(* restores the value the key had before.                                  *)
(***************************************************************************)
C34_UndoRestoresThePreState ==
    [][\A op \in UndoOperations :
          TxnApplyRollback(op) => store'.data[op.key] = store.data[op.key]
      ]_vars

(***************************************************************************)
(* MemoryPressure and the optimization strategy (metadata.rs, memory.rs).  *)
(* The counters cache_hits and total_keys_processed are the pair           *)
(* <<hits, total>>; the f64 comparisons are done on the fractions.         *)
(***************************************************************************)
MaxProcessed == 5
HitCounters == {c \in (0..MaxProcessed) \X (0..MaxProcessed) : c[1] <= c[2]}

\* MemoryPressure::cache_hit_ratio() < num / 10
hit_ratio_below(counters, num) ==
    counters[2] = 0 \/ counters[1] * 10 < num * counters[2]

u8_MAX == 255

\* `(usage_ratio * 10.0) as u8`: the cast truncates and saturates
base_level(memory_keys, max_memory_keys) ==
    imin((memory_keys * 10) \div max_memory_keys, u8_MAX)

hit_adjustment(counters) == IF hit_ratio_below(counters, 8) THEN 2 ELSE 0

\* `base_level + hit_adjustment` leaves the range of u8
pressure_overflows(counters, memory_keys, max_memory_keys) ==
    /\ max_memory_keys # 0
    /\ base_level(memory_keys, max_memory_keys) + hit_adjustment(counters) > u8_MAX

\* MemoryPressure::calculate_pressure_level in a build without overflow checks
calculate_pressure_level(counters, memory_keys, max_memory_keys) ==
    IF max_memory_keys = 0 THEN 0
    ELSE imin((base_level(memory_keys, max_memory_keys) + hit_adjustment(counters))
                  % (u8_MAX + 1),
              10)

\* MemoryManager::select_optimization_strategy
select_optimization_strategy(pressure_level, counters) ==
    CASE pressure_level \in 0..3 -> "None"
      [] pressure_level \in 4..6 ->
            IF hit_ratio_below(counters, 7) THEN "Moderate" ELSE "Light"
      [] pressure_level \in 7..8 -> "Moderate"
      [] pressure_level \in 9..10 -> "Aggressive"
      [] OTHER -> "None"

\* `(excess as f64 * fraction).ceil() as usize` for fraction = num / 100
ceil_fraction(excess, num) == (excess * num + 99) \div 100

\* MemoryManager::calculate_keys_to_remove
calculate_keys_to_remove(mm, strategy, current_keys) ==
    LET excess == imax(current_keys - mm.max_memory_keys, 0)
    IN CASE strategy = "None" -> 0
         [] strategy = "Light" -> ceil_fraction(excess, 10)
         [] strategy = "Moderate" -> ceil_fraction(excess, 25)
         [] strategy = "Aggressive" -> ceil_fraction(excess, 50)

\* the target of the strategy chosen for the pressure band of the store
strategy_target(s, mm, counters) ==
    calculate_keys_to_remove(
        mm,
        select_optimization_strategy(
            calculate_pressure_level(counters, data_len(s), mm.max_memory_keys),
            counters),
        data_len(s))

(***************************************************************************)
(* C35 -- One offload pass moves at most the target of the strategy to     *)
(* disk.  Whatever the cache hit counters of the store are, the number of  *)
(* keys that check_and_offload_low_frequency_data moves is at most         *)
(* calculate_keys_to_remove of the strategy selected for the pressure      *)
(* level of the swept store.                                               *)
(***************************************************************************)
C35_OffloadPassKeepsToStrategyTarget ==
    [][SeqOffloadPass /\ memory_manager # None =>
          \E counters \in HitCounters :
              Cardinality(store'.disk_keys \ store.disk_keys)
                 <= strategy_target(clean_expired_keys(store, clock),
                                    memory_manager[1], counters)
      ]_vars

(***************************************************************************)
(* Specification SpecPressure: calculate_pressure_level called with every  *)
(* pair of hit counters and every key count and key budget of the bounds.  *)
(* last_cmd holds the call and what it returned.                           *)
(***************************************************************************)
MaxPressureKeys == 26
MaxPressureBudget == 2

PressureReturned(counters, memory_keys, max_memory_keys, ret) ==
    /\ last_cmd' = [cmd |-> "calculate_pressure_level", counters |-> counters,
                    memory_keys |-> memory_keys, max_memory_keys |-> max_memory_keys,
                    ret |-> ret]
    /\ UNCHANGED <<walVars, storeVars, conn, expiring, concVars, txnVars, srvVars>>

\* calculate_pressure_level in a build without overflow checks: the sum wraps
PressureCall(counters, memory_keys, max_memory_keys) ==
    PressureReturned(counters, memory_keys, max_memory_keys,
                     calculate_pressure_level(counters, memory_keys, max_memory_keys))

\* calculate_pressure_level in a build with overflow checks: the sum panics
PressureCallChecked(counters, memory_keys, max_memory_keys) ==
    /\ pressure_overflows(counters, memory_keys, max_memory_keys)
    /\ PressureReturned(counters, memory_keys, max_memory_keys, "panicked")

PressureNext ==
    \E counters \in HitCounters, memory_keys \in 0..MaxPressureKeys,
       max_memory_keys \in 0..MaxPressureBudget :
        \/ PressureCall(counters, memory_keys, max_memory_keys)
        \/ PressureCallChecked(counters, memory_keys, max_memory_keys)

SpecPressure == CmdInit /\ [][PressureNext]_vars

(***************************************************************************)
(* C36 -- calculate_pressure_level returns a level in 0..10 for every key  *)
(* count, key budget and hit ratio, and for a fixed hit ratio and budget   *)
(* it is non-decreasing in the key count: no smaller key count gets a      *)
(* higher level than the one returned.                                     *)
(***************************************************************************)
C36_PressureLevelInRangeAndMonotone ==
    last_cmd.cmd = "calculate_pressure_level" =>
        /\ last_cmd.ret \in 0..10
        /\ \A fewer \in 0..last_cmd.memory_keys :
               calculate_pressure_level(last_cmd.counters, fewer,
                                        last_cmd.max_memory_keys) <= last_cmd.ret

(***************************************************************************)
(* The text of a WAL line, character by character (wal.rs, LogEntry).      *)
(* A String is a sequence of one-character strings; an entry has the       *)
(* seven fields of LogEntry.  Specification SpecCodec serializes an entry  *)
(* and deserializes the line.                                              *)
(***************************************************************************)
MaxTextLen == 2
TextChars == {"a", "|"}
Digits == <<"0", "1", "2", "3", "4", "5", "6", "7", "8", "9">>
Whitespace == {" ", "\n"}

RECURSIVE u64_to_string(_)
u64_to_string(n) ==
    IF n < 10 THEN <<Digits[n + 1]>>
    ELSE u64_to_string(n \div 10) \o <<Digits[(n % 10) + 1]>>

digit_value(c) == CHOOSE d \in 0..9 : Digits[d + 1] = c

\* str::parse::<u64>: None unless the text is a non-empty run of digits
RECURSIVE parse_digits(_, _)
parse_digits(text, acc) ==
    IF text = <<>> THEN acc
    ELSE parse_digits(Tail(text), acc * 10 + digit_value(Head(text)))

parse_u64(text) ==
    IF text = <<>> \/ \E i \in 1..Len(text) : \A d \in 1..10 : Digits[d] # text[i]
    THEN None
    ELSE Some(parse_digits(text, 0))

\* str::trim
RECURSIVE trim_start(_)
trim_start(text) ==
    IF text # <<>> /\ Head(text) \in Whitespace THEN trim_start(Tail(text)) ELSE text

RECURSIVE trim_end(_)
trim_end(text) ==
    IF text # <<>> /\ text[Len(text)] \in Whitespace
    THEN trim_end(SubSeq(text, 1, Len(text) - 1))
    ELSE text

trim(text) == trim_end(trim_start(text))

\* str::split('|'): the pieces between the separators, empty ones included
RECURSIVE split_pipe(_, _)
split_pipe(text, piece) ==
    IF text = <<>> THEN <<piece>>
    ELSE IF Head(text) = "|" THEN <<piece>> \o split_pipe(Tail(text), <<>>)
    ELSE split_pipe(Tail(text), Append(piece, Head(text)))

text_or_default(opt) == IF opt = None THEN <<>> ELSE opt[1]

command_text(command) ==
    CASE command = "PUT" -> <<"P", "U", "T">>
      [] command = "DELETE" -> <<"D", "E", "L", "E", "T", "E">>
      [] command = "BEGIN" -> <<"B", "E", "G", "I", "N">>
      [] command = "COMMIT" -> <<"C", "O", "M", "M", "I", "T">>
      [] command = "ROLLBACK" -> <<"R", "O", "L", "L", "B", "A", "C", "K">>
      [] command = "CHECKPOINT" -> <<"C", "H", "E", "C", "K", "P", "O", "I", "N", "T">>

LogCommands == {"PUT", "DELETE", "BEGIN", "COMMIT", "ROLLBACK", "CHECKPOINT"}

\* LogEntry::serialize
LogEntry_serialize(e) ==
    command_text(e.command) \o <<"|">> \o text_or_default(e.key) \o <<"|">>
        \o text_or_default(e.value) \o <<"|">> \o u64_to_string(e.id) \o <<"|">>
        \o u64_to_string(e.timestamp) \o <<"|">> \o text_or_default(e.old_value)
        \o <<"|">> \o text_or_default(e.metadata) \o <<"\n">>

\* LogEntry::deserialize read at second `now`
LogEntry_deserialize(line, now) ==
    LET parts == split_pipe(trim(line), <<>>)
        non_empty(i) == IF Len(parts) >= i /\ parts[i] # <<>> THEN Some(parts[i]) ELSE None
    IN IF Len(parts) < 4 THEN None
       ELSE IF \A c \in LogCommands : command_text(c) # parts[1] THEN None
       ELSE IF parse_u64(parts[4]) = None THEN None
       ELSE Some([command   |-> CHOOSE c \in LogCommands : command_text(c) = parts[1],
                  key       |-> non_empty(2),
                  value     |-> non_empty(3),
                  id        |-> parse_u64(parts[4])[1],
                  timestamp |-> IF Len(parts) >= 5
                                THEN IF parse_u64(parts[5]) = None THEN now
                                     ELSE parse_u64(parts[5])[1]
                                ELSE 0,
                  old_value |-> non_empty(6),
                  metadata  |-> non_empty(7)])

\* the texts that the command parser hands on: non-empty, no white space
RECURSIVE TextsOfLen(_)
TextsOfLen(n) ==
    IF n = 0 THEN {<<>>}
    ELSE {Append(t, c) : t \in TextsOfLen(n - 1), c \in TextChars}

ParserTexts == UNION {TextsOfLen(n) : n \in 1..MaxTextLen}
OptionalTexts == {None} \cup {Some(t) : t \in ParserTexts}
ShortOptionalTexts == {None, Some(<<"a">>)}
CodecIds == {1, 12}
CodecTimes == {0, 1}

\* the entries that the log methods build: Put has a key and a value, Delete
\* a key, the other commands neither
CodecEntries ==
    {e \in [command : LogCommands, key : OptionalTexts, value : OptionalTexts,
            id : CodecIds, timestamp : CodecTimes,
            old_value : ShortOptionalTexts, metadata : {None, Some(<<"a">>)}] :
        /\ e.command = "PUT" => e.key # None /\ e.value # None
        /\ e.command = "DELETE" => e.key # None /\ e.value = None
        /\ e.command \notin {"PUT", "DELETE"} =>
               e.key = None /\ e.value = None /\ e.old_value = None}

CodecInit ==
    /\ WalIdle
    /\ StoreIdle
    /\ \E e \in CodecEntries : last_cmd = [cmd |-> "entry", entry |-> e]
    /\ conn = [open_txn |-> None, pre_begin |-> None]
    /\ expiring = [k \in Keys |-> None]
    /\ ConcIdle
    /\ TxnIdle
    /\ SrvIdle

\* LogEntry::serialize on the entry
CodecSerialize ==
    /\ last_cmd.cmd = "entry"
    /\ last_cmd' = [cmd |-> "line", entry |-> last_cmd.entry,
                    line |-> LogEntry_serialize(last_cmd.entry)]
    /\ UNCHANGED <<walVars, storeVars, conn, expiring, concVars, txnVars, srvVars>>

\* LogEntry::deserialize on the line, one second later at most
CodecDeserialize ==
    /\ last_cmd.cmd = "line"
    /\ \E now \in CodecTimes :
          last_cmd' = [cmd |-> "parsed", entry |-> last_cmd.entry,
                       ret |-> LogEntry_deserialize(last_cmd.line, now)]
    /\ UNCHANGED <<walVars, storeVars, conn, expiring, concVars, txnVars, srvVars>>

CodecNext == CodecSerialize \/ CodecDeserialize

SpecCodec == CodecInit /\ [][CodecNext]_vars

(***************************************************************************)
(* C37 -- WAL entry round trip.  Deserializing the line that serialize     *)
(* wrote for an entry gives the entry back, in all seven fields, for       *)
(* every entry whose texts the command parser accepts, '|' included.       *)
(***************************************************************************)
C37_LogEntryRoundTrip ==
    last_cmd.cmd = "parsed" => last_cmd.ret = Some(last_cmd.entry)

(***************************************************************************)
(* Specification SpecFraming: the bytes of one connection (server.rs,      *)
(* Server::handle_client).  The client writes request lines to the socket; *)
(* every stream.read returns some of the bytes that have arrived, and the  *)
(* loop answers the trimmed buffer of each read.  A response is recorded   *)
(* as the command text it answers.                                         *)
(***************************************************************************)
MaxLinesSent == 2
RequestBodies == {<<"g", "e", "t", " ", "k", "1">>, <<"d", "e", "l", " ", "k", "1">>}

FramingInit ==
    /\ WalIdle
    /\ StoreIdle
    /\ CmdIdle
    /\ ConcIdle
    /\ TxnIdle
    /\ server = [inbound |-> <<>>, lines |-> <<>>, responses |-> <<>>]

\* the client writes one request line
ClientSendLine(body) ==
    /\ Len(server.lines) < MaxLinesSent
    /\ server' = [server EXCEPT !.inbound = @ \o body \o <<"\n">>,
                                !.lines = Append(@, body)]
    /\ UNCHANGED <<walVars, storeVars, cmdVars, concVars, txnVars>>

\* one turn of the loop of handle_client: stream.read returns n bytes, the
\* trimmed text is parsed and executed as one command and one response line
\* is written; an empty text is skipped
ConnRead(n) ==
    LET command_str == trim(SubSeq(server.inbound, 1, n))
    IN /\ n \in 1..Len(server.inbound)
       /\ server' = [server EXCEPT
              !.inbound = SubSeq(@, n + 1, Len(@)),
              !.responses = IF command_str = <<>> THEN @ ELSE Append(@, command_str)]
       /\ UNCHANGED <<walVars, storeVars, cmdVars, concVars, txnVars>>

MaxReadLen == 14

FramingNext ==
    \/ \E body \in RequestBodies : ClientSendLine(body)
    \/ \E n \in 1..MaxReadLen : ConnRead(n)

SpecFraming == FramingInit /\ [][FramingNext]_vars

(***************************************************************************)
(* C38 -- Request framing.  Once every byte that the client wrote has been *)
(* read, there is exactly one response per request line, and the i-th      *)
(* response answers the i-th line, however the bytes were split or         *)
(* coalesced across the reads.                                             *)
(***************************************************************************)
C38_OneResponsePerRequestLine ==
    server.inbound = <<>> =>
        /\ Len(server.responses) = Len(server.lines)
        /\ \A i \in 1..Len(server.lines) : server.responses[i] = server.lines[i]

(***************************************************************************)
(* Specification SpecCadence: a TransactionManager built with              *)
(* with_auto_checkpoint(true, CadenceThreshold), one transaction and the   *)
(* threads that run execute_operation_with_old_value on it.                *)
(***************************************************************************)
CadenceThreshold == 2
MaxCadenceOperations == 3

CadenceInit ==
    /\ WalIdle
    /\ StoreIdle
    /\ CmdIdle
    /\ ConcIdle
    /\ manager = [active_transactions |-> {}, next_txn_id |-> 1,
                  auto_checkpoint |-> TRUE, operation_count |-> 0,
                  checkpoint_threshold |-> CadenceThreshold]
    /\ workers = [w \in Workers |-> IdleWorker]
    /\ txn_history = [begun |-> <<>>, last |-> NoCall]
    /\ SrvIdle

\* the calls of execute_operation_with_old_value that have started
OperationsStarted ==
    manager.operation_count
        + Cardinality({w \in Workers : workers[w].pc \in {"op_lookup", "op_add", "op_log"}})

\* a thread calls execute_operation_with_old_value(t, op, None, None); the
\* calls are bounded by their number instead of the length of the log
CadenceCall(w, op, t) ==
    /\ workers[w].pc = "idle"
    /\ wal_alive
    /\ OperationsStarted < MaxCadenceOperations
    /\ workers' = [workers EXCEPT ![w] =
                      [IdleWorker EXCEPT !.pc = "op_lookup", !.op = op, !.txn = t]]
    /\ UNCHANGED <<walVars, storeVars, cmdVars, concVars, srvVars, manager, txn_history>>

CadenceNext ==
    \/ \E w \in Workers : manager.next_txn_id = 1 /\ BeginAlloc(w)
    \/ \E w \in Workers : BeginLog(w)
    \/ \E w \in Workers : BeginInsert(w)
    \/ \E w \in Workers, op \in TxnOperations, t \in ActiveIds(manager) :
          CadenceCall(w, op, t)
    \/ \E w \in Workers : OpLookup(w)
    \/ \E w \in Workers : OpAdd(w)
    \/ \E w \in Workers : OpLog(w)

SpecCadence == CadenceInit /\ [][CadenceNext]_vars

CheckpointEntries(file) ==
    Cardinality({i \in 1..Len(file) : deserialize(file[i]).command = "CHECKPOINT"})

(***************************************************************************)
(* C39 -- Auto-checkpoint cadence of the transaction manager.  An          *)
(* automatic checkpoint is made when the operation counter reaches         *)
(* checkpoint_threshold and the next one only checkpoint_threshold         *)
(* operations later: after n operations the log holds n div                *)
(* checkpoint_threshold Checkpoint entries.                                *)
(***************************************************************************)
C39_CheckpointEveryThresholdOperations ==
    CheckpointEntries(wal_file) = manager.operation_count \div manager.checkpoint_threshold

(***************************************************************************)
(* Specification SpecCkptIds: one WriteAheadLog with the default           *)
(* checkpoint interval; entries of several transactions are appended in    *)
(* any order of their ids and checkpoints are created in between.          *)
(***************************************************************************)
SpecCkptIds == CmdInit /\ [][RecoverNext]_vars

CheckpointPositions(file) ==
    {i \in 1..Len(file) : deserialize(file[i]).command = "CHECKPOINT"}

(***************************************************************************)
(* C40 -- Checkpoint ids never repeat.  Whatever the order of appends and  *)
(* checkpoint creations, no two Checkpoint entries of the log carry the    *)
(* same id, so no create_checkpoint has written over the file of an        *)
(* earlier one.                                                            *)
(***************************************************************************)
C40_CheckpointIdsNeverRepeat ==
    \A i, j \in CheckpointPositions(wal_file) :
        i # j => deserialize(wal_file[i]).id # deserialize(wal_file[j]).id

====
